---- MODULE Spec2Model ----
(***************************************************************************)
(* Model of the datenight repository: the weekly buzz curation run         *)
(* (src/app/api/health/route.ts GET, src/lib/buzz-server.ts,               *)
(* src/lib/buzz-curate.ts) and the recommend endpoint                      *)
(* (src/unnamed/part_005 POST).                                            *)
(*                                                                         *)
(* Text is modelled as a sequence of one-character strings so that the     *)
(* normalisation and substring tests of the code are computed, not         *)
(* assumed.                                                                *)
(***************************************************************************)
EXTENDS Integers, Sequences, FiniteSets, TLC

(***************************************************************************)
(* Text helpers shared by both normalisers.                                *)
(***************************************************************************)

UpperToLower ==
  [A |-> "a", B |-> "b", C |-> "c", D |-> "d", E |-> "e", F |-> "f", G |-> "g", H |-> "h", I |-> "i", J |-> "j", K |-> "k", L |-> "l", M |-> "m", N |-> "n", O |-> "o", P |-> "p", Q |-> "q", R |-> "r", S |-> "s", T |-> "t", U |-> "u", V |-> "v", W |-> "w", X |-> "x", Y |-> "y", Z |-> "z"]

LowerAlnum ==
  {"a", "b", "c", "d", "e", "f", "g", "h", "i", "j", "k", "l", "m", "n", "o", "p", "q", "r", "s", "t", "u", "v", "w", "x", "y", "z", "0", "1", "2", "3", "4", "5", "6", "7", "8", "9"}

Whitespace == {" ", "\t", "\n"}

\* String.prototype.toLowerCase on one character.
UpperLetters == DOMAIN UpperToLower
toLowerCase(c) == IF c \in UpperLetters THEN UpperToLower[c] ELSE c

\* .replace(/\s+/g, " "): every run of whitespace becomes one space.
CollapseWhitespace(s) ==
  LET kept == SelectSeq([i \in DOMAIN s |-> i],
                        LAMBDA i : s[i] \notin Whitespace \/ i = 1 \/ s[i - 1] \notin Whitespace)
  IN [k \in DOMAIN kept |-> IF s[kept[k]] \in Whitespace THEN " " ELSE s[kept[k]]]

\* String.prototype.trim, applied to text whose whitespace is collapsed.
trim(s) ==
  LET a == IF s # <<>> /\ s[1] \in Whitespace THEN SubSeq(s, 2, Len(s)) ELSE s
  IN IF a # <<>> /\ a[Len(a)] \in Whitespace THEN SubSeq(a, 1, Len(a) - 1) ELSE a

\* String.prototype.includes.
includes(hay, needle) ==
  \E i \in 1..(Len(hay) - Len(needle) + 1) :
    \A k \in 1..Len(needle) : hay[i + k - 1] = needle[k]

\* Array.prototype.join(" ") over a sequence of texts.
RECURSIVE JoinSpace(_)
JoinSpace(ss) ==
  IF ss = <<>> THEN <<>>
  ELSE IF Len(ss) = 1 THEN ss[1]
  ELSE ss[1] \o <<" ">> \o JoinSpace(Tail(ss))

\* Array.prototype.slice(0, n).
Take(s, n) == SubSeq(s, 1, IF n < Len(s) THEN n ELSE Len(s))

Range(s) == {s[i] : i \in DOMAIN s}

Min(a, b) == IF a < b THEN a ELSE b
Max(a, b) == IF a > b THEN a ELSE b

(***************************************************************************)
(* Trending quality gate, src/app/api/health/route.ts.                     *)
(***************************************************************************)
\* Mutant: one row fewer is enough.
TRENDING_MIN_VALID_COUNT_Four == 5 - 1

TRENDING_MIN_VALID_COUNT == 5
\* TRENDING_MIN_EVIDENCE_RATIO = 0.7, kept as the fraction 7/10.
TRENDING_MIN_EVIDENCE_RATIO_NUM == 7
TRENDING_MIN_EVIDENCE_RATIO_DEN == 10

\* normalizeText: lower-case, every character outside [a-z0-9\s] becomes a
\* space, whitespace runs collapse, the ends are trimmed.
normalizeText(value) ==
  LET lowered == [i \in DOMAIN value |-> toLowerCase(value[i])]
      cleaned == [i \in DOMAIN lowered |->
                    IF lowered[i] \in LowerAlnum \/ lowered[i] \in Whitespace
                    THEN lowered[i] ELSE " "]
  IN trim(CollapseWhitespace(cleaned))


blocked ==
  {<<"s","u","b","s","c","r","i","b","e">>,
   <<"n","e","w","s","l","e","t","t","e","r">>,
   <<"n","e","w","s","l","e","t","t","e","r","s">>,
   <<"s","i","g","n"," ","u","p">>,
   <<"r","e","a","d","e","r","s">>,
   <<"p","r","i","v","a","c","y">>,
   <<"p","o","l","i","c","y">>,
   <<"t","e","r","m","s">>,
   <<"a","c","c","o","u","n","t">>,
   <<"l","o","g"," ","i","n">>,
   <<"l","o","g","i","n">>,
   <<"r","e","g","i","s","t","e","r">>,
   <<"e","v","e","r","y","w","h","e","r","e">>,
   <<"e","v","e","r","y","t","h","i","n","g">>}

\* looksLikeNoise: the normalised name contains a blocked term.
looksLikeNoise(name) ==
  LET n == normalizeText(name)
  IN \E term \in blocked : includes(n, term)

\* hasArticleEvidence: the normalised name occurs in the normalised text.
hasArticleEvidence(name, articleText) ==
  LET needle == normalizeText(name)
      hay == normalizeText(articleText)
  IN IF needle = <<>> THEN FALSE
     ELSE IF hay = <<>> THEN FALSE
     ELSE includes(hay, needle)

\* A null text is the empty text and a null number is Null; the code treats
\* null and "" alike wherever the model reads such a field.
Null == -1

\* Mutant: every accepted row is seeded.
isSeedEligible_Any(row) == TRUE

\* isSeedEligible: a row carries a neighborhood, a price level in 1..4, a
\* cuisine/vibe tag or a rating in 0..5.
isSeedEligible(row) ==
  \/ row.neighborhood # <<>>
  \/ (row.price_level # Null /\ row.price_level >= 1 /\ row.price_level <= 4)
  \/ Len(row.cuisine_vibes) > 0
  \/ (row.google_rating # Null /\ row.google_rating >= 0 /\ row.google_rating <= 5)

\* articleTextById.get(id) ?? "" over a row's claimed articles, joined.
textFromLinkedIds(r, articleTextById) ==
  JoinSpace([k \in DOMAIN r.source_article_ids |->
               IF r.source_article_ids[k] \in DOMAIN articleTextById
               THEN articleTextById[r.source_article_ids[k]] ELSE <<>>])

\* Mutant: more than the minimum of plausible rows is refused.
EvidenceRatioBelowMin_Capped(evidenceCount, validCount) ==
  validCount > 5 \/ evidenceCount * 10 < 7 * validCount

\* Mutant: the evidence threshold taken as 0.5.
EvidenceRatioBelowMin_Half(evidenceCount, validCount) ==
  IF validCount > 0 THEN evidenceCount * 2 < validCount ELSE TRUE

\* The comparison evidenceRatio < 0.7 on the quotient evidenceCount/validCount
\* (0 when validCount is 0), done on integers.
EvidenceRatioBelowMin(evidenceCount, validCount) ==
  IF validCount > 0
  THEN evidenceCount * TRENDING_MIN_EVIDENCE_RATIO_DEN
         < TRENDING_MIN_EVIDENCE_RATIO_NUM * validCount
  ELSE TRUE

evaluateTrendingQuality(rows, articleTextById) ==
  LET NotNoise(r) == ~looksLikeNoise(r.name)
      cleaned == SelectSeq(rows, NotNoise)
      Evidenced(r) == hasArticleEvidence(r.name, textFromLinkedIds(r, articleTextById))
      accepted == SelectSeq(cleaned, Evidenced)
      validCount == Len(cleaned)
      evidenceCount == Len(accepted)
      noiseFiltered == Len(rows) - Len(cleaned)
  IN IF validCount < TRENDING_MIN_VALID_COUNT
     THEN [passed |-> FALSE, accepted |-> <<>>, validCount |-> validCount,
           evidenceCount |-> evidenceCount, noiseFiltered |-> noiseFiltered,
           reason |-> "quality_gate_failed: plausible rows below min"]
     ELSE IF EvidenceRatioBelowMin(evidenceCount, validCount)
     THEN [passed |-> FALSE, accepted |-> <<>>, validCount |-> validCount,
           evidenceCount |-> evidenceCount, noiseFiltered |-> noiseFiltered,
           reason |-> "quality_gate_failed: evidence ratio below min"]
     ELSE [passed |-> TRUE, accepted |-> accepted, validCount |-> validCount,
           evidenceCount |-> evidenceCount, noiseFiltered |-> noiseFiltered,
           reason |-> "none"]

(***************************************************************************)
(* Article curation, src/lib/buzz-curate.ts.                               *)
(***************************************************************************)
\* const PICK = 5 (PICK is a reserved word of TLA+).
PICK_N == 5

\* byId.get(id).source_id; articles is a sequence of article records.
HasArticle(articles, id) == \E k \in DOMAIN articles : articles[k].id = id
SourceOfId(articles, id) ==
  LET k == CHOOSE j \in DOMAIN articles :
             articles[j].id = id /\ \A m \in DOMAIN articles : articles[m].id = id => m <= j
  IN articles[k].source_id

\* sourceCount.get(src) ?? 0 and sourceCount.size, recomputed from picks.
SourceCount(picks, articles, src) ==
  LET FromSrc(id) == SourceOfId(articles, id) = src
  IN Len(SelectSeq(picks, FromSrc))
SourceCountSize(picks, articles) ==
  Cardinality({SourceOfId(articles, picks[k]) : k \in DOMAIN picks})

\* Mutant: the per-source cap holds even when overflow is allowed.
DiversifyAdd_Capped(picks, id, allowOverflow, articles, maxPerSource) ==
  IF id \in Range(picks) THEN picks
  ELSE IF ~HasArticle(articles, id) THEN picks
  ELSE IF SourceCount(picks, articles, SourceOfId(articles, id)) >= maxPerSource
  THEN picks
  ELSE Append(picks, id)

\* The closure add(id, allowOverflow): the picks after the call.
DiversifyAdd(picks, id, allowOverflow, articles, maxPerSource) ==
  IF id \in Range(picks) THEN picks
  ELSE IF ~HasArticle(articles, id) THEN picks
  ELSE IF ~allowOverflow /\ SourceCount(picks, articles, SourceOfId(articles, id)) >= maxPerSource
  THEN picks
  ELSE Append(picks, id)

\* Array.from(new Set(list)): first occurrences, in order.
RECURSIVE DedupeIds(_)
DedupeIds(s) ==
  IF s = <<>> THEN <<>>
  ELSE LET r == DedupeIds(SubSeq(s, 1, Len(s) - 1))
       IN IF s[Len(s)] \in Range(r) THEN r ELSE Append(r, s[Len(s)])

\* Pass 1: first item of each distinct source, until target or minSources.
RECURSIVE DiversifyPass1(_, _, _, _, _, _, _)
DiversifyPass1(ordered, k, picks, articles, target, maxPerSource, minSources) ==
  IF k > Len(ordered) \/ Len(picks) >= target THEN picks
  ELSE LET id == ordered[k]
       IN IF ~HasArticle(articles, id)
          THEN DiversifyPass1(ordered, k + 1, picks, articles, target, maxPerSource, minSources)
          ELSE IF SourceCount(picks, articles, SourceOfId(articles, id)) > 0
          THEN DiversifyPass1(ordered, k + 1, picks, articles, target, maxPerSource, minSources)
          ELSE LET next == DiversifyAdd(picks, id, FALSE, articles, maxPerSource)
               IN IF SourceCountSize(next, articles) >= minSources THEN next
                  ELSE DiversifyPass1(ordered, k + 1, next, articles, target, maxPerSource, minSources)

\* Passes 2 and 3: fill from a list, with or without the per-source cap.
RECURSIVE DiversifyFill(_, _, _, _, _, _, _)
DiversifyFill(list, k, picks, allowOverflow, articles, target, maxPerSource) ==
  IF k > Len(list) \/ Len(picks) >= target THEN picks
  ELSE DiversifyFill(list, k + 1,
                     DiversifyAdd(picks, list[k], allowOverflow, articles, maxPerSource),
                     allowOverflow, articles, target, maxPerSource)

\* Mutant: pass 1 is left out.
diversifyCuratedArticleIds_NoPass1(preferredIds, candidateIds, articles, target, maxPerSource, minSources) ==
  LET Valid(id) == HasArticle(articles, id)
      preferred == SelectSeq(preferredIds, Valid)
      ordered == DedupeIds(preferred \o SelectSeq(candidateIds, Valid))
      p2a == DiversifyFill(preferred, 1, <<>>, FALSE, articles, target, maxPerSource)
      p2b == DiversifyFill(ordered, 1, p2a, FALSE, articles, target, maxPerSource)
      p3 == DiversifyFill(ordered, 1, p2b, TRUE, articles, target, maxPerSource)
  IN Take(p3, target)

diversifyCuratedArticleIds(preferredIds, candidateIds, articles, target, maxPerSource, minSources) ==
  LET Valid(id) == HasArticle(articles, id)
      preferred == SelectSeq(preferredIds, Valid)
      candidates == SelectSeq(candidateIds, Valid)
      ordered == DedupeIds(preferred \o candidates)
      p1 == DiversifyPass1(ordered, 1, <<>>, articles, target, maxPerSource, minSources)
      p2a == DiversifyFill(preferred, 1, p1, FALSE, articles, target, maxPerSource)
      p2b == DiversifyFill(ordered, 1, p2a, FALSE, articles, target, maxPerSource)
      p3 == DiversifyFill(ordered, 1, p2b, TRUE, articles, target, maxPerSource)
  IN Take(p3, target)

\* The text of a source id, for sourceNames.get(id) ?? id.
SourceIdText(source_id) ==
  CASE source_id = "5280" -> <<"5","2","8","0">>
    [] source_id = "eater-denver" -> <<"e","a","t","e","r","-","d","e","n","v","e","r">>
    [] source_id = "303-magazine" -> <<"3","0","3","-","m","a","g","a","z","i","n","e">>
    [] source_id = "reddit-denverfood" -> <<"r","e","d","d","i","t","-","d","e","n","v","e","r","f","o","o","d">>
    [] OTHER -> <<>>

\* The sourceWeight table of fallbackCuratedArticleIds; other sources weigh 2.
sourceWeight(source_id) ==
  CASE source_id = "5280" -> 5
    [] source_id = "eater-denver" -> 5
    [] source_id = "westword" -> 4
    [] source_id = "303-magazine" -> 4
    [] source_id = "new-denizen" -> 4
    [] source_id = "reddit-denverfood" -> 1
    [] OTHER -> 2

TestAny(t, words) == \E word \in words : includes(t, word)

\* keywordWeight: the four regular-expression tests on the lower-cased text.
keywordWeight(text) ==
  LET t == [i \in DOMAIN text |-> toLowerCase(text[i])]
  IN (IF TestAny(t, {<<"r","e","v","i","e","w">>, <<"c","r","i","t","i","c">>, <<"t","o","p">>, <<"b","e","s","t">>, <<"g","u","i","d","e">>, <<"w","h","e","r","e"," ","t","o"," ","e","a","t">>, <<"h","e","a","t","m","a","p">>})
      THEN 3 ELSE 0)
     + (IF TestAny(t, {<<"o","p","e","n">>, <<"o","p","e","n","i","n","g">>, <<"c","l","o","s","e">>, <<"c","l","o","s","i","n","g">>, <<"n","e","w"," ","r","e","s","t","a","u","r","a","n","t">>, <<"d","e","b","u","t">>})
        THEN 2 ELSE 0)
     + (IF TestAny(t, {<<"c","h","e","f">>, <<"m","e","n","u">>, <<"t","a","s","t","i","n","g">>, <<"n","e","i","g","h","b","o","r","h","o","o","d">>, <<"d","e","n","v","e","r">>})
        THEN 1 ELSE 0)
     - (IF TestAny(t, {<<"q","u","e","s","t","i","o","n">>, <<"h","e","l","p"," ","m","e"," ","c","h","o","o","s","e">>, <<"n","a"," ","b","e","e","r","s">>, <<"b","i","r","t","h","d","a","y"," ","p","a","r","t","y">>})
        THEN 2 ELSE 0)

\* recencyWeight on the age in days of published_at (-1: no usable date).
recencyWeight(ageDays) ==
  IF ageDays < 0 THEN 0
  ELSE IF ageDays <= 7 THEN 3
  ELSE IF ageDays <= 30 THEN 2
  ELSE IF ageDays <= 90 THEN 1
  ELSE 0

\* popularityProxyWeight in hundredths: 1 for a social-proof keyword, 0.5 for
\* a reddit permalink.
popularityProxyWeight100(a) ==
  LET raw == a.title \o <<" ">> \o a.summary
      text == [i \in DOMAIN raw |-> toLowerCase(raw[i])]
  IN (IF TestAny(text, {<<"v","i","r","a","l">>, <<"t","r","e","n","d","i","n","g">>, <<"m","o","s","t"," ","r","e","a","d">>, <<"p","o","p","u","l","a","r">>, <<"d","e","b","a","t","e">>, <<"b","u","z","z">>})
      THEN 100 ELSE 0)
     + (IF a.redditPermalink THEN 50 ELSE 0)

\* Array.prototype.sort((a, b) => b.score - a.score): stable, descending.
RECURSIVE SortByScoreDesc(_)
SortByScoreDesc(s) ==
  IF s = <<>> THEN <<>>
  ELSE LET r == SortByScoreDesc(SubSeq(s, 1, Len(s) - 1))
           x == s[Len(s)]
           n == Cardinality({k \in DOMAIN r : r[k].score >= x.score})
       IN SubSeq(r, 1, n) \o <<x>> \o SubSeq(r, n + 1, Len(r))

\* fallbackCuratedArticleIds; scores are kept in hundredths
\* (fetchedOrderBias = max(0, 1 - idx * 0.02), idx counted from 0).
fallbackCuratedArticleIds(articles, sourceNames) ==
  LET scoreOf(idx) ==
        LET a == articles[idx]
            sourceName == IF a.source_id \in DOMAIN sourceNames
                          THEN sourceNames[a.source_id] ELSE SourceIdText(a.source_id)
            text == a.title \o <<" ">>
                      \o a.summary
                      \o <<" ">> \o sourceName
        IN 100 * (sourceWeight(a.source_id) + keywordWeight(text) + recencyWeight(a.ageDays))
             + popularityProxyWeight100(a)
             + Max(0, 100 - (idx - 1) * 2)
      ranked == SortByScoreDesc([idx \in DOMAIN articles |->
                                   [id |-> articles[idx].id, score |-> scoreOf(idx)]])
      rankedIds == DedupeIds([k \in DOMAIN ranked |-> ranked[k].id])
  IN Take(rankedIds, PICK_N)

\* pickCuratedArticleIds after the model answered: trim, keep the ids of the
\* given articles, first PICK.  raw is the parsed JSON array.
FilterModelIds(raw, articles) ==
  LET Valid(id) == HasArticle(articles, id)
  IN Take(SelectSeq(raw, Valid), PICK_N)

(***************************************************************************)
(* State.                                                                  *)
(***************************************************************************)
VARIABLES
  \* the weekly run, src/app/api/health/route.ts GET
  pc,               \* position of the run
  OPENAI_API_KEY,   \* process.env.OPENAI_API_KEY is set
  buzz_articles,    \* ids of the rows of table buzz_articles
  curated_rank,     \* buzz_articles.curated_rank by article id, 0 for null
  buzz_restaurants, \* rows of table buzz_restaurants
  restaurants,      \* names of the rows of table restaurants
  ids,              \* the ids to rank
  rankIdx,          \* loop index i of setBuzzCuratedRanksById
  curated, curationMethod, curationError,
  extracted,        \* extracted.restaurants
  articleTextById,
  acceptedRows,
  trendingInserted, trendingSeeded, trendingMethod, trendingError,
  status,           \* HTTP status of the response, 0 while running
  runStart,         \* the tables as they were when the run started
  \* calls of diversifyCuratedArticleIds
  divArgs,
  divResult

runVars == <<ids, rankIdx, curated, curationMethod, curationError, extracted,
             articleTextById, acceptedRows, trendingInserted, trendingSeeded,
             trendingMethod, trendingError, status, runStart>>
cronVars == <<pc, OPENAI_API_KEY, buzz_articles, curated_rank, buzz_restaurants,
              restaurants, runVars>>
divVars == <<divArgs, divResult>>
VARIABLES
  \* one request to the recommend endpoint, src/unnamed/part_005 POST
  recPc,              \* position of the handler
  recRestaurants,     \* the rows fetchRestaurantsForProfile returns
  reads,              \* how the reads of the profile and of the restaurants ended
  silent,             \* the upstreams that never answer a request
  body,               \* the request body: criteria, mode, offset
  normalizedCriteria,
  dbCandidates,
  filtered,
  constraintRelaxed,
  relaxedCriteria,    \* the criteria of the second filter pass
  filterPasses,       \* how many times the catalog was filtered
  scored,
  workingCandidates,
  baseConfidence,     \* in hundredths
  sourceMode,
  webAdded,
  webRan,             \* webAugment was called
  rawPicks,           \* the picks the model returned
  rerank,
  fallbackRanking,             \* the fallback ranking
  recommendations,
  response            \* HTTP status (0 while running) and confidence

recVars == <<recPc, recRestaurants, reads, silent, body, normalizedCriteria, dbCandidates, filtered,
             constraintRelaxed, relaxedCriteria, filterPasses, scored, workingCandidates,
             baseConfidence, sourceMode, webAdded, webRan, rawPicks, rerank, fallbackRanking,
             recommendations, response>>

NoCriteria == [vibeTags |-> <<>>, minPrice |-> Null, maxPrice |-> Null]

\* No request has been received.
RecIdle ==
  /\ recPc = "idle"
  /\ reads = [profile |-> "pending", restaurants |-> "pending"]
  /\ body = [criteria |-> NoCriteria, mode |-> "default", offset |-> 0]
  /\ normalizedCriteria = NoCriteria
  /\ dbCandidates = <<>>
  /\ filtered = <<>>
  /\ constraintRelaxed = FALSE
  /\ relaxedCriteria = NoCriteria
  /\ filterPasses = 0
  /\ scored = <<>>
  /\ workingCandidates = <<>>
  /\ baseConfidence = 0
  /\ sourceMode = "db"
  /\ webAdded = 0
  /\ webRan = FALSE
  /\ rawPicks = <<>>
  /\ rerank = [picks |-> <<>>, llmUsed |-> FALSE]
  /\ fallbackRanking = <<>>
  /\ recommendations = <<>>
  /\ response = [status |-> 0, confidence |-> 0]

VARIABLES
  \* the planning page, src/unnamed/part_002 PlanClient
  pageCriteria,         \* useState criteria: the tags and the price bounds
  lastChatSource,       \* "none" for null, "llm" or "fallback"
  isSending,
  optimisticCriteria,   \* sendMessage local while its request is in flight,
                        \* the default otherwise
  chatResponse          \* the status the page's last chat request resolved to
                        \* (0 for a rejected fetch) and what became of the
                        \* endpoint's completion request (llm)

chatVars == <<pageCriteria, lastChatSource, isSending, optimisticCriteria, chatResponse>>

\* defaultCriteria: no tags, the full price range.
defaultCriteria == [vibeTags |-> <<>>, minPrice |-> 1, maxPrice |-> 4]

\* The page as mounted, no message sent.
ChatIdle ==
  /\ pageCriteria = defaultCriteria
  /\ lastChatSource = "none"
  /\ isSending = FALSE
  /\ optimisticCriteria = defaultCriteria
  /\ chatResponse = [status |-> 0, llm |-> "none"]

vars == <<cronVars, divVars, recVars, chatVars>>

(***************************************************************************)
(* The article store and what the upstreams may answer.                    *)
(***************************************************************************)
NumArticles == 6
InitArticles == 4
MaxHallucinated == 1
MaxNoise == 1
MaxEnriched == 1
MaxStraddling == 1

Digit == <<"1", "2", "3", "4", "5", "6", "7", "8", "9">>

ArticleSourceCycle == <<"eater-denver", "5280", "303-magazine", "reddit-denverfood">>
SourceNames ==
  [s \in {"eater-denver", "5280", "303-magazine", "reddit-denverfood"} |->
     CASE s = "eater-denver" -> <<"E","a","t","e","r"," ","D","e","n","v","e","r">>
       [] s = "5280" -> <<"5","2","8","0"," ","M","a","g","a","z","i","n","e">>
       [] s = "303-magazine" -> <<"3","0","3"," ","M","a","g","a","z","i","n","e">>
       [] OTHER -> <<"r","/","D","e","n","v","e","r","F","o","o","d">>]

\* Row i of buzz_articles as fetchRecentBuzzArticlesForCuration selects it.
\* published_at is kept as the age in days, the url as its reddit shape, a
\* null summary as the empty text.
Article(i) ==
  [id |-> i,
   source_id |-> ArticleSourceCycle[((i - 1) % Len(ArticleSourceCycle)) + 1],
   title |-> IF i % 2 = 1
             THEN <<"C","a","f","e","-">> \o <<Digit[i]>> \o <<" ","o","p","e","n","s">>
             ELSE <<"W","e","e","k","e","n","d"," ","R","e","v","i","e","w","!">>,
   summary |-> IF i % 3 = 0 THEN <<>> ELSE <<"N","e","w"," ","m","e","n","u">>,
   ageDays |-> (NumArticles - i) * 10,
   redditPermalink |-> (i % Len(ArticleSourceCycle)) = 0]

\* The page excerpt fetchArticleExcerpt returns for article i when the fetch
\* works; an article with an even id names its restaurant only there.
Excerpt(i) == <<"T","r","y"," ","C","a","f","e"," ">> \o <<Digit[i]>>

\* Ascending list of a finite set of integers.
RECURSIVE Ascending(_)
Ascending(S) ==
  IF S = {} THEN <<>>
  ELSE LET m == CHOOSE x \in S : \A y \in S : x <= y
       IN <<m>> \o Ascending(S \ {m})

Reverse(s) == [k \in DOMAIN s |-> s[Len(s) + 1 - k]]

\* fetchRecentBuzzArticlesForCuration(50): fewer than 10 rows fall in the
\* recency window, so the latest rows overall, newest first.
RecentArticles == [k \in 1..Cardinality(buzz_articles) |->
                     Article(Reverse(Ascending(buzz_articles))[k])]

\* fetchCuratedBuzzArticles(5): rows with a rank, by rank (then id), first 5.
CuratedArticleIds ==
  LET ranked == {i \in buzz_articles : curated_rank[i] # 0}
      key(i) == curated_rank[i] * (NumArticles + 1) + i
      byKey == Ascending({key(i) : i \in ranked})
  IN Take([k \in DOMAIN byKey |-> byKey[k] % (NumArticles + 1)], 5)

\* A row as extractTrendingRestaurants returns it after enrichment.
TrendingRow(name, source_article_ids, enriched) ==
  [name |-> name, source_article_ids |-> source_article_ids,
   neighborhood |-> IF enriched THEN <<"L","o","H","i">> ELSE <<>>,
   price_level |-> IF enriched THEN 2 ELSE Null,
   cuisine_vibes |-> <<>>, google_rating |-> Null]

\* What the extraction may return for the curated articles: nNamed rows
\* naming the restaurant of one curated article each, nHallucinated rows
\* whose name is in no article, nNoise boilerplate rows; the first nEnriched
\* rows come back enriched.  Every row claims curated articles only.
ExtractedRows(curatedIds, nNamed, nHallucinated, nNoise, nEnriched) ==
  LET named == [k \in 1..nNamed |-> [name |-> <<"C","a","f","e"," ">> \o <<Digit[curatedIds[k]]>>,
                                      ids |-> <<curatedIds[k]>>]]
      halluc == [k \in 1..nHallucinated |-> [name |-> <<"Z","e","d"," ">> \o <<Digit[k]>>,
                                              ids |-> <<curatedIds[1]>>]]
      noise == [k \in 1..nNoise |-> [name |-> <<"L","o","g","-","I","n"," ","B","a","r"," ">> \o <<Digit[k]>>,
                                      ids |-> <<curatedIds[1]>>]]
      all == named \o halluc \o noise
  IN [k \in DOMAIN all |-> TrendingRow(all[k].name, all[k].ids, k <= nEnriched)]

\* A row the extraction model may also return (article_refs hold several
\* references, lines 525-537): it claims the first two curated articles and
\* its name is the last character of the excerpt of the first followed by the
\* first four of the title of the second, a name that is in neither article.
StraddlingRows(curatedIds, nStraddling) ==
  IF nStraddling = 0 \/ Len(curatedIds) < 2 THEN <<>>
  ELSE <<TrendingRow(<<Digit[curatedIds[1]], " ">> \o Take(Article(curatedIds[2]).title, 4),
                     <<curatedIds[1], curatedIds[2]>>, FALSE)>>

\* What the curation model may answer for the recent articles: the parsed
\* JSON array, or <<>> with an error.  Id 0 is an id the model invented.
ModelAnswers(recent) ==
  LET r == [k \in DOMAIN recent |-> recent[k].id]
  IN {[ids |-> <<>>, error |-> "OpenAI 500"],
      [ids |-> <<0>> \o r, error |-> "none"],
      [ids |-> Reverse(r), error |-> "none"],
      [ids |-> <<r[1], r[1]>> \o Tail(r), error |-> "none"],
      [ids |-> Take(r, 3), error |-> "none"]}

(***************************************************************************)
(* The weekly run: GET of src/app/api/health/route.ts, one action per      *)
(* awaited call.  An upstream call ends "ok", "error" (a non-2xx answer)   *)
(* or "throw" (fetch or the configuration lookup throws).                  *)
(***************************************************************************)
Outcomes == {"ok", "error", "throw"}

NoRun ==
  [ids |-> <<>>, rankIdx |-> 0, curated |-> 0, curationMethod |-> "none",
   curationError |-> "none", extracted |-> <<>>, articleTextById |-> <<>>,
   acceptedRows |-> <<>>, trendingInserted |-> 0, trendingSeeded |-> 0,
   trendingMethod |-> "none", trendingError |-> "none"]

ResetRun ==
  /\ ids' = NoRun.ids
  /\ rankIdx' = NoRun.rankIdx
  /\ curated' = NoRun.curated
  /\ curationMethod' = NoRun.curationMethod
  /\ curationError' = NoRun.curationError
  /\ extracted' = NoRun.extracted
  /\ articleTextById' = NoRun.articleTextById
  /\ acceptedRows' = NoRun.acceptedRows
  /\ trendingInserted' = NoRun.trendingInserted
  /\ trendingSeeded' = NoRun.trendingSeeded
  /\ trendingMethod' = NoRun.trendingMethod
  /\ trendingError' = NoRun.trendingError

\* The text the run builds for a curated article (lines 941-947):
\* title, then summary and excerpt trimmed.
ArticleText(i, excerptsOk) ==
  Article(i).title \o <<" ">> \o
    trim(Article(i).summary \o <<" ">> \o (IF excerptsOk THEN Excerpt(i) ELSE <<>>))

StoredRows(rows) == {[rows[k] EXCEPT !.name = trim(@)] : k \in DOMAIN rows}

\* The store before the first run, and the store a successful earlier run
\* over the articles 1..5 leaves (ranks 1..5 on 5,4,3,2,1 and their rows).
FreshStore ==
  [buzz_articles |-> 1..InitArticles,
   curated_rank |-> [i \in 1..NumArticles |-> 0],
   buzz_restaurants |-> {},
   restaurants |-> {}]
PreviousIds == <<5, 4, 3, 2, 1>>
PreviousStore ==
  [buzz_articles |-> 1..5,
   curated_rank |-> [i \in 1..NumArticles |-> IF i <= 5 THEN 6 - i ELSE 0],
   buzz_restaurants |->
     StoredRows(evaluateTrendingQuality(
                  ExtractedRows(PreviousIds, 5, 0, 0, 0),
                  [i \in 1..5 |-> ArticleText(i, TRUE)]).accepted),
   restaurants |-> {}]

Init ==
  /\ pc = "idle"
  /\ OPENAI_API_KEY \in BOOLEAN
  /\ \E store \in {FreshStore, PreviousStore} :
       /\ buzz_articles = store.buzz_articles
       /\ curated_rank = store.curated_rank
       /\ buzz_restaurants = store.buzz_restaurants
       /\ restaurants = store.restaurants
       /\ runStart = [buzz_restaurants |-> store.buzz_restaurants,
                      restaurants |-> store.restaurants]
  /\ ids = NoRun.ids
  /\ rankIdx = NoRun.rankIdx
  /\ curated = NoRun.curated
  /\ curationMethod = NoRun.curationMethod
  /\ curationError = NoRun.curationError
  /\ extracted = NoRun.extracted
  /\ articleTextById = NoRun.articleTextById
  /\ acceptedRows = NoRun.acceptedRows
  /\ trendingInserted = NoRun.trendingInserted
  /\ trendingSeeded = NoRun.trendingSeeded
  /\ trendingMethod = NoRun.trendingMethod
  /\ trendingError = NoRun.trendingError
  /\ status = 0
  /\ divArgs = [preferredIds |-> <<>>, candidateIds |-> <<>>, articles |-> <<>>,
                target |-> 0, maxPerSource |-> 1, minSources |-> 1]
  /\ divResult = [done |-> TRUE, ids |-> <<>>]
  /\ RecIdle
  /\ ChatIdle
  /\ recRestaurants = <<>>
  /\ silent = {}

\* Lines 787-807: the bearer check and fetchBuzzSourcesWithFeeds.
StartRun ==
  /\ pc = "idle"
  /\ ResetRun
  /\ runStart' = [buzz_restaurants |-> buzz_restaurants, restaurants |-> restaurants]
  /\ \E authorized \in BOOLEAN, sources \in {"ok", "throw"} :
       IF ~authorized THEN pc' = "done" /\ status' = 401
       ELSE IF sources = "throw" THEN pc' = "done" /\ status' = 500
       ELSE pc' = "feeds" /\ status' = 0
  /\ UNCHANGED <<OPENAI_API_KEY, buzz_articles, curated_rank, buzz_restaurants,
                 restaurants, divVars, recVars, chatVars>>

\* Lines 811-863: the feed loop; okSources are the feeds that were fetched,
\* parsed and upserted, every other source records an error.
FetchFeeds ==
  /\ pc = "feeds"
  /\ \E okSources \in SUBSET Range(ArticleSourceCycle) :
       buzz_articles' = buzz_articles \cup
         {i \in 1..NumArticles : Article(i).source_id \in okSources}
  /\ pc' = "curate"
  /\ UNCHANGED <<OPENAI_API_KEY, curated_rank, buzz_restaurants, restaurants,
                 runVars, divVars, recVars, chatVars>>

\* Lines 869-894 and 902-913: pick the ids to rank.
Curate ==
  /\ pc = "curate"
  /\ IF ~OPENAI_API_KEY
     THEN /\ curationError' = "OPENAI_API_KEY missing"
          /\ pc' = "trending"
          /\ UNCHANGED <<ids, curationMethod>>
     ELSE \E recentOutcome \in Outcomes :
            IF recentOutcome = "throw"
            THEN /\ curationError' = "fetch failed"
                 /\ pc' = "trending"
                 /\ UNCHANGED <<ids, curationMethod>>
            ELSE LET recent == IF recentOutcome = "ok" THEN RecentArticles ELSE <<>>
                 IN IF Len(recent) < 5
                    THEN /\ curationError' = "Need at least 5 recent articles before curation"
                         /\ pc' = "trending"
                         /\ UNCHANGED <<ids, curationMethod>>
                    ELSE \E sourcesOk \in BOOLEAN, answer \in ModelAnswers(recent) :
                           LET sourceNames == IF sourcesOk THEN SourceNames ELSE <<>>
                               llmIds == FilterModelIds(answer.ids, recent)
                               fallbackIds == fallbackCuratedArticleIds(recent, sourceNames)
                               useLlm == Len(llmIds) >= 5
                               picked == IF useLlm THEN llmIds ELSE fallbackIds
                               method == IF useLlm THEN "llm"
                                         ELSE IF Len(fallbackIds) >= 5 THEN "fallback"
                                         ELSE "none"
                               llmError == IF useLlm THEN "none"
                                           ELSE IF answer.error # "none" THEN answer.error
                                           ELSE "LLM returned fewer than 5 picks"
                               diverse == diversifyCuratedArticleIds(picked, fallbackIds, recent, 5, 1, 4)
                           IN /\ ids' = diverse
                              /\ curationMethod' = method
                              /\ IF Len(diverse) >= 5
                                 THEN curationError' = llmError /\ pc' = "clear_ranks"
                                 ELSE /\ curationError' =
                                           (IF llmError = "none"
                                            THEN "Not enough candidate articles to curate 5 picks"
                                            ELSE llmError)
                                      /\ pc' = "trending"
  /\ UNCHANGED <<OPENAI_API_KEY, buzz_articles, curated_rank, buzz_restaurants, restaurants,
                 rankIdx, curated, extracted, articleTextById, acceptedRows, trendingInserted,
                 trendingSeeded, trendingMethod, trendingError, status, runStart, divVars, recVars, chatVars>>

\* clearBuzzCuratedRanks as called on line 895: the returned error is dropped.
ClearRanks ==
  /\ pc = "clear_ranks"
  /\ \E outcome \in Outcomes :
       CASE outcome = "ok" ->
              /\ curated_rank' = [i \in DOMAIN curated_rank |->
                                    IF curated_rank[i] \in 1..5 THEN 0 ELSE curated_rank[i]]
              /\ pc' = "set_ranks"
              /\ UNCHANGED curationError
         [] outcome = "error" ->
              /\ pc' = "set_ranks"
              /\ UNCHANGED <<curated_rank, curationError>>
         [] outcome = "throw" ->
              /\ curationError' = "fetch failed"
              /\ pc' = "trending"
              /\ UNCHANGED curated_rank
  /\ UNCHANGED <<OPENAI_API_KEY, buzz_articles, buzz_restaurants, restaurants,
                 ids, rankIdx, curated, curationMethod, extracted, articleTextById,
                 acceptedRows, trendingInserted, trendingSeeded, trendingMethod,
                 trendingError, status, runStart, divVars, recVars, chatVars>>

\* One PATCH of setBuzzCuratedRanksById (lines 140-154 of buzz-server.ts)
\* and, after the last one, lines 897-901 of the route.
SetRank ==
  /\ pc = "set_ranks"
  /\ rankIdx < Min(5, Len(ids))
  /\ \E outcome \in Outcomes :
       CASE outcome = "ok" ->
              /\ curated_rank' = [curated_rank EXCEPT ![ids[rankIdx + 1]] = rankIdx + 1]
              /\ rankIdx' = rankIdx + 1
              /\ IF rankIdx + 1 < Min(5, Len(ids))
                 THEN UNCHANGED <<pc, curated>>
                 ELSE pc' = "trending" /\ curated' = Len(ids)
              /\ UNCHANGED curationError
         [] outcome = "error" ->
              /\ curationError' = (IF curationError = "none" THEN "Supabase error" ELSE curationError)
              /\ pc' = "trending"
              /\ UNCHANGED <<curated_rank, rankIdx, curated>>
         [] outcome = "throw" ->
              /\ curationError' = "fetch failed"
              /\ pc' = "trending"
              /\ UNCHANGED <<curated_rank, rankIdx, curated>>
  /\ UNCHANGED <<OPENAI_API_KEY, buzz_articles, buzz_restaurants, restaurants,
                 ids, curationMethod, extracted, articleTextById,
                 acceptedRows, trendingInserted, trendingSeeded, trendingMethod,
                 trendingError, status, runStart, divVars, recVars, chatVars>>

\* Lines 927-988 and 1028-1039: fetch the curated articles and their excerpts,
\* extract, and put the rows through the quality gate.
Trending ==
  /\ pc = "trending"
  /\ IF ~OPENAI_API_KEY
     THEN /\ trendingError' = "OPENAI_API_KEY missing"
          /\ pc' = "done" /\ status' = 200
          /\ UNCHANGED <<extracted, articleTextById, acceptedRows, trendingMethod>>
     ELSE \E curatedOutcome \in Outcomes :
            IF curatedOutcome = "throw"
            THEN /\ trendingError' = "fetch failed"
                 /\ pc' = "done" /\ status' = 200
                 /\ UNCHANGED <<extracted, articleTextById, acceptedRows, trendingMethod>>
            ELSE LET curatedIds == IF curatedOutcome = "ok" THEN CuratedArticleIds ELSE <<>>
                 IN IF Len(curatedIds) = 0
                    THEN /\ trendingError' = "No curated articles found for extraction"
                         /\ pc' = "done" /\ status' = 200
                         /\ UNCHANGED <<extracted, articleTextById, acceptedRows, trendingMethod>>
                    ELSE \E excerptsOk \in BOOLEAN,
                            nNamed \in 0..Len(curatedIds),
                            nHallucinated \in 0..MaxHallucinated,
                            nNoise \in 0..MaxNoise,
                            nEnriched \in 0..MaxEnriched,
                            nStraddling \in 0..MaxStraddling :
                           LET texts == [i \in Range(curatedIds) |-> ArticleText(i, excerptsOk)]
                               rows == ExtractedRows(curatedIds, nNamed, nHallucinated,
                                                     nNoise, nEnriched)
                                         \o StraddlingRows(curatedIds, nStraddling)
                               quality == evaluateTrendingQuality(rows, texts)
                           IN /\ extracted' = rows
                              /\ articleTextById' = texts
                              /\ IF Len(rows) = 0
                                 THEN /\ trendingError' = "No restaurants extracted from curated articles"
                                      /\ pc' = "done" /\ status' = 200
                                      /\ UNCHANGED <<acceptedRows, trendingMethod>>
                                 ELSE IF ~quality.passed
                                 THEN /\ trendingError' = quality.reason
                                      /\ trendingMethod' = "llm"
                                      /\ pc' = "done" /\ status' = 200
                                      /\ UNCHANGED acceptedRows
                                 ELSE /\ acceptedRows' = quality.accepted
                                      /\ pc' = "clear_restaurants"
                                      /\ UNCHANGED <<trendingError, trendingMethod, status>>
  /\ UNCHANGED <<OPENAI_API_KEY, buzz_articles, curated_rank, buzz_restaurants, restaurants,
                 ids, rankIdx, curated, curationMethod, curationError, trendingInserted,
                 trendingSeeded, runStart, divVars, recVars, chatVars>>

\* clearBuzzRestaurants, lines 991-993.
ClearRestaurants ==
  /\ pc = "clear_restaurants"
  /\ \E outcome \in Outcomes :
       CASE outcome = "ok" ->
              /\ buzz_restaurants' = {}
              /\ pc' = "insert_restaurants"
              /\ UNCHANGED <<trendingError, status>>
         [] outcome = "error" ->
              /\ trendingError' = "Supabase error: clear"
              /\ pc' = "done" /\ status' = 200
              /\ UNCHANGED buzz_restaurants
         [] outcome = "throw" ->
              /\ trendingError' = "fetch failed"
              /\ pc' = "done" /\ status' = 200
              /\ UNCHANGED buzz_restaurants
  /\ UNCHANGED <<OPENAI_API_KEY, buzz_articles, curated_rank, restaurants,
                 ids, rankIdx, curated, curationMethod, curationError, extracted,
                 articleTextById, acceptedRows, trendingInserted, trendingSeeded,
                 trendingMethod, runStart, divVars, recVars, chatVars>>

\* Mutant: the result of insertBuzzRestaurants is not looked at.
InsertRestaurants_ErrorIgnored ==
  /\ pc = "insert_restaurants"
  /\ \E outcome \in Outcomes :
       buzz_restaurants' = IF outcome = "ok" THEN buzz_restaurants \cup StoredRows(acceptedRows)
                           ELSE buzz_restaurants
  /\ trendingInserted' = Len(acceptedRows)
  /\ trendingMethod' = "llm"
  /\ IF \E k \in DOMAIN acceptedRows : isSeedEligible(acceptedRows[k])
     THEN pc' = "seed" /\ UNCHANGED <<trendingError, status>>
     ELSE /\ trendingError' = "No enriched trending rows met seed eligibility; skipped seeding"
          /\ pc' = "done" /\ status' = 200
  /\ UNCHANGED <<OPENAI_API_KEY, buzz_articles, curated_rank, restaurants,
                 ids, rankIdx, curated, curationMethod, curationError, extracted,
                 articleTextById, acceptedRows, trendingSeeded, runStart, divVars, recVars, chatVars>>

\* insertBuzzRestaurants and lines 995-1003, 1013-1020: the rows are stored
\* with their names trimmed.
InsertRestaurants ==
  /\ pc = "insert_restaurants"
  /\ \E outcome \in Outcomes :
       CASE outcome = "ok" \/ Len(acceptedRows) = 0 ->
              /\ buzz_restaurants' = buzz_restaurants \cup StoredRows(acceptedRows)
              /\ trendingInserted' = Len(acceptedRows)
              /\ trendingMethod' = "llm"
              /\ IF \E k \in DOMAIN acceptedRows : isSeedEligible(acceptedRows[k])
                 THEN pc' = "seed" /\ UNCHANGED <<trendingError, status>>
                 ELSE /\ trendingError' = "No enriched trending rows met seed eligibility; skipped seeding"
                      /\ pc' = "done" /\ status' = 200
         [] outcome = "error" /\ Len(acceptedRows) > 0 ->
              /\ trendingError' = "Supabase error: insert"
              /\ pc' = "done" /\ status' = 200
              /\ UNCHANGED <<buzz_restaurants, trendingInserted, trendingMethod>>
         [] outcome = "throw" /\ Len(acceptedRows) > 0 ->
              /\ trendingError' = "fetch failed"
              /\ pc' = "done" /\ status' = 200
              /\ UNCHANGED <<buzz_restaurants, trendingInserted, trendingMethod>>
  /\ UNCHANGED <<OPENAI_API_KEY, buzz_articles, curated_rank, restaurants,
                 ids, rankIdx, curated, curationMethod, curationError, extracted,
                 articleTextById, acceptedRows, trendingSeeded, runStart, divVars, recVars, chatVars>>

\* upsertTrendingIntoRestaurants and lines 1004-1012: upsert by name.
\* "error" is a non-2xx answer or a missing PROFILE_ID.
SeedRestaurants ==
  /\ pc = "seed"
  /\ LET seedableRows == SelectSeq(acceptedRows, isSeedEligible)
     IN \E outcome \in Outcomes :
          CASE outcome = "ok" ->
                 /\ restaurants' = restaurants \cup
                      {trim(seedableRows[k].name) : k \in DOMAIN seedableRows}
                 /\ trendingSeeded' = Len(seedableRows)
                 /\ UNCHANGED trendingError
            [] outcome = "error" ->
                 /\ trendingError' = "Supabase error: seed"
                 /\ UNCHANGED <<restaurants, trendingSeeded>>
            [] outcome = "throw" ->
                 /\ trendingError' = "fetch failed"
                 /\ UNCHANGED <<restaurants, trendingSeeded>>
  /\ pc' = "done"
  /\ status' = 200
  /\ UNCHANGED <<OPENAI_API_KEY, buzz_articles, curated_rank, buzz_restaurants,
                 ids, rankIdx, curated, curationMethod, curationError, extracted,
                 articleTextById, acceptedRows, trendingInserted, trendingMethod,
                 runStart, divVars, recVars, chatVars>>

Next ==
  \/ StartRun
  \/ FetchFeeds
  \/ Curate
  \/ ClearRanks
  \/ SetRank
  \/ Trending
  \/ ClearRestaurants
  \/ InsertRestaurants
  \/ SeedRestaurants

Spec == Init /\ [][Next]_vars

(***************************************************************************)
(* Calls of diversifyCuratedArticleIds on bounded inputs.                  *)
(***************************************************************************)
DivMaxArticles == 3
DivMaxIds == 2
DivMaxTarget == 4
DivMaxPerSource == 2
DivMaxMinSources == 4
DivSources == {"eater-denver", "reddit-denverfood"}

\* Article ids 1..n exist; id DivMaxArticles + 1 never does.
DivIdUniverse == 1..(DivMaxArticles + 1)
DivArticleLists ==
  UNION {{[k \in 1..n |-> [id |-> k, source_id |-> src[k]]] : src \in [1..n -> DivSources]}
         : n \in 0..DivMaxArticles}
DivIdLists == UNION {[1..n -> DivIdUniverse] : n \in 0..DivMaxIds}

\* The run is idle and its store fresh while diversify calls are examined.
CronIdle ==
  /\ pc = "idle"
  /\ buzz_articles = FreshStore.buzz_articles
  /\ curated_rank = FreshStore.curated_rank
  /\ buzz_restaurants = FreshStore.buzz_restaurants
  /\ restaurants = FreshStore.restaurants
  /\ ids = NoRun.ids
  /\ rankIdx = NoRun.rankIdx
  /\ curated = NoRun.curated
  /\ curationMethod = NoRun.curationMethod
  /\ curationError = NoRun.curationError
  /\ extracted = NoRun.extracted
  /\ articleTextById = NoRun.articleTextById
  /\ acceptedRows = NoRun.acceptedRows
  /\ trendingInserted = NoRun.trendingInserted
  /\ trendingSeeded = NoRun.trendingSeeded
  /\ trendingMethod = NoRun.trendingMethod
  /\ trendingError = NoRun.trendingError
  /\ status = 0
  /\ runStart = [buzz_restaurants |-> {}, restaurants |-> {}]

InitDiversify ==
  /\ CronIdle
  /\ OPENAI_API_KEY = FALSE
  /\ RecIdle
  /\ ChatIdle
  /\ recRestaurants = <<>>
  /\ silent = {}
  /\ divArgs \in [preferredIds : DivIdLists, candidateIds : DivIdLists,
                   articles : DivArticleLists, target : 0..DivMaxTarget,
                   maxPerSource : 0..DivMaxPerSource, minSources : 1..DivMaxMinSources]
  /\ divResult = [done |-> FALSE, ids |-> <<>>]

Diversify ==
  /\ ~divResult.done
  /\ divResult' = [done |-> TRUE,
                   ids |-> diversifyCuratedArticleIds(divArgs.preferredIds, divArgs.candidateIds,
                                                      divArgs.articles, divArgs.target,
                                                      divArgs.maxPerSource, divArgs.minSources)]
  /\ UNCHANGED <<divArgs, cronVars, recVars, chatVars>>

NextDiversify == Diversify

SpecDiversify == InitDiversify /\ [][NextDiversify]_vars

(***************************************************************************)
(* Recommend endpoint, src/unnamed/part_005 (POST and its helpers).        *)
(***************************************************************************)
HARD_DIETARY ==
  {<<"v","e","g","e","t","a","r","i","a","n">>, <<"v","e","g","a","n">>, <<"g","l","u","t","e","n"," ","f","r","e","e">>, <<"g","l","u","t","e","n","-","f","r","e","e">>, <<"d","a","i","r","y"," ","f","r","e","e">>,
   <<"h","a","l","a","l">>, <<"k","o","s","h","e","r">>, <<"p","e","s","c","a","t","a","r","i","a","n">>}

CUISINE_HINTS ==
  {<<"i","t","a","l","i","a","n">>, <<"m","e","x","i","c","a","n">>, <<"j","a","p","a","n","e","s","e">>, <<"s","u","s","h","i">>, <<"k","o","r","e","a","n">>, <<"c","h","i","n","e","s","e">>, <<"t","h","a","i">>,
   <<"v","i","e","t","n","a","m","e","s","e">>, <<"f","r","e","n","c","h">>, <<"s","p","a","n","i","s","h">>, <<"m","e","d","i","t","e","r","r","a","n","e","a","n">>, <<"s","t","e","a","k","h","o","u","s","e">>,
   <<"s","e","a","f","o","o","d">>, <<"p","i","z","z","a">>, <<"r","a","m","e","n">>, <<"o","m","a","k","a","s","e">>}

\* Object.entries(CUISINE_SYNONYMS), in the order the keys are written.
CUISINE_SYNONYMS ==
  <<[cuisine |-> <<"s","u","s","h","i">>, synonyms |-> <<<<"s","u","s","h","i">>, <<"n","i","g","i","r","i">>, <<"s","a","s","h","i","m","i">>, <<"o","m","a","k","a","s","e">>, <<"i","z","a","k","a","y","a">>, <<"t","e","m","a","k","i">>>>],
    [cuisine |-> <<"j","a","p","a","n","e","s","e">>, synonyms |-> <<<<"j","a","p","a","n","e","s","e">>, <<"s","u","s","h","i">>, <<"r","a","m","e","n">>, <<"i","z","a","k","a","y","a">>, <<"o","m","a","k","a","s","e">>, <<"y","a","k","i","t","o","r","i">>>>],
    [cuisine |-> <<"i","t","a","l","i","a","n">>, synonyms |-> <<<<"i","t","a","l","i","a","n">>, <<"p","a","s","t","a">>, <<"t","r","a","t","t","o","r","i","a">>, <<"o","s","t","e","r","i","a">>, <<"p","i","z","z","a">>>>],
    [cuisine |-> <<"m","e","x","i","c","a","n">>, synonyms |-> <<<<"m","e","x","i","c","a","n">>, <<"t","a","c","o">>, <<"t","a","q","u","e","r","i","a">>>>],
    [cuisine |-> <<"c","h","i","n","e","s","e">>, synonyms |-> <<<<"c","h","i","n","e","s","e">>, <<"d","i","m"," ","s","u","m">>, <<"s","z","e","c","h","u","a","n">>, <<"s","i","c","h","u","a","n">>>>],
    [cuisine |-> <<"t","h","a","i">>, synonyms |-> <<<<"t","h","a","i">>>>],
    [cuisine |-> <<"v","i","e","t","n","a","m","e","s","e">>, synonyms |-> <<<<"v","i","e","t","n","a","m","e","s","e">>, <<"p","h","o">>>>],
    [cuisine |-> <<"k","o","r","e","a","n">>, synonyms |-> <<<<"k","o","r","e","a","n">>, <<"b","b","q">>, <<"b","u","l","g","o","g","i">>>>],
    [cuisine |-> <<"f","r","e","n","c","h">>, synonyms |-> <<<<"f","r","e","n","c","h">>, <<"b","i","s","t","r","o">>, <<"b","r","a","s","s","e","r","i","e">>>>],
    [cuisine |-> <<"s","p","a","n","i","s","h">>, synonyms |-> <<<<"s","p","a","n","i","s","h">>, <<"t","a","p","a","s">>>>],
    [cuisine |-> <<"m","e","d","i","t","e","r","r","a","n","e","a","n">>, synonyms |-> <<<<"m","e","d","i","t","e","r","r","a","n","e","a","n">>, <<"m","i","d","d","l","e"," ","e","a","s","t","e","r","n">>, <<"l","e","v","a","n","t","i","n","e">>>>],
    [cuisine |-> <<"s","e","a","f","o","o","d">>, synonyms |-> <<<<"s","e","a","f","o","o","d">>, <<"o","y","s","t","e","r">>, <<"r","a","w"," ","b","a","r">>>>],
    [cuisine |-> <<"s","t","e","a","k","h","o","u","s","e">>, synonyms |-> <<<<"s","t","e","a","k","h","o","u","s","e">>, <<"s","t","e","a","k">>>>],
    [cuisine |-> <<"p","i","z","z","a">>, synonyms |-> <<<<"p","i","z","z","a">>, <<"p","i","z","z","e","r","i","a">>>>],
    [cuisine |-> <<"r","a","m","e","n">>, synonyms |-> <<<<"r","a","m","e","n">>>>],
    [cuisine |-> <<"o","m","a","k","a","s","e">>, synonyms |-> <<<<"o","m","a","k","a","s","e">>, <<"s","u","s","h","i">>>>]>>

\* normalize: lower-case, every character outside [a-z0-9\-\s] becomes a
\* space, every hyphen becomes a space, whitespace runs collapse, the ends
\* are trimmed.
normalize(s) ==
  trim(CollapseWhitespace(
    [i \in DOMAIN s |->
       LET c == toLowerCase(s[i])
       IN IF c = "-" THEN " "
          ELSE IF c \in LowerAlnum \/ c \in Whitespace THEN c ELSE " "]))

\* unique: normalise each item, drop the empty ones and the repeats, keep
\* the order of first appearance.
RECURSIVE unique(_)
unique(items) ==
  IF items = <<>> THEN <<>>
  ELSE LET out == unique(SubSeq(items, 1, Len(items) - 1))
       IN out \o SelectSeq(<<normalize(items[Len(items)])>>,
                           LAMBDA n : n # <<>> /\ n \notin Range(out))

\* The tag lists of the modelled requests.
TagLists ==
  {<<>>,
   <<<<"V","e","g","e","t","a","r","i","a","n">>>>,
   <<<<"t","h","a","i">>>>,
   <<<<"s","u","s","h","i">>>>,
   <<<<"s","u","s","h","i">>, <<"V","e","g","e","t","a","r","i","a","n">>>>,
   <<<<"i","t","a","l","i","a","n">>, <<"t","h","a","i">>, <<"v","e","g","a","n">>>>,
   <<<<"D","a","t","e","-","N","i","g","h","t">>, <<"d","a","t","e"," ","n","i","g","h","t">>>>}

\* t === cuisine || synonyms.some((s) => t.includes(s) || s.includes(t))
TagNamesCuisine(t, entry) ==
  \/ t = entry.cuisine
  \/ \E j \in DOMAIN entry.synonyms :
       includes(t, entry.synonyms[j]) \/ includes(entry.synonyms[j], t)

\* cuisineIntentFromTags: the cuisines a tag names or shares a keyword with,
\* in key order.
cuisineIntentFromTags(tags) ==
  LET normalized == unique(tags)
      matched == SelectSeq(CUISINE_SYNONYMS,
                           LAMBDA entry : \E t \in Range(normalized) : TagNamesCuisine(t, entry))
  IN [k \in DOMAIN matched |-> matched[k].cuisine]

\* CUISINE_SYNONYMS[cuisine] ?? [cuisine]
KeywordsOf(cuisine) ==
  LET entries == SelectSeq(CUISINE_SYNONYMS, LAMBDA entry : entry.cuisine = cuisine)
  IN IF entries = <<>> THEN <<cuisine>> ELSE entries[1].synonyms

\* keywords.some((k) => hay.includes(normalize(k)))
CuisineKeywordIn(hayText, cuisine) ==
  \E k \in Range(KeywordsOf(cuisine)) : includes(hayText, normalize(k))

textMatchesCuisine(hayText, cuisineIntent) ==
  IF Len(cuisineIntent) = 0 THEN TRUE
  ELSE \E k \in DOMAIN cuisineIntent : CuisineKeywordIn(hayText, cuisineIntent[k])

\* normalize(`${c.name} ${c.neighborhood ?? ""} ${c.notes ?? ""} ${c.tagsText}`)
HayOf(c) ==
  normalize(c.name \o <<" ">> \o c.neighborhood \o <<" ">> \o c.notes \o <<" ">> \o c.tagsText)

candidateFromRestaurant(r) ==
  [id |-> r.id, name |-> r.name, neighborhood |-> r.neighborhood,
   priceLevel |-> r.price_level, bookingUrl |-> r.booking_url, notes |-> r.notes,
   source |-> "db", tagsText |-> JoinSpace(unique(r.vibe_tags))]

\* tags.filter((t) => HARD_DIETARY.has(t))
DietaryOf(tags) == SelectSeq(tags, LAMBDA t : t \in HARD_DIETARY)

\* The text matches the cuisine intent and holds every dietary tag.
TextMeets(hayText, tags, cuisineIntent) ==
  IF ~textMatchesCuisine(hayText, cuisineIntent) THEN FALSE
  ELSE \A t \in Range(DietaryOf(tags)) : includes(hayText, t)

\* matchesHardConstraints past the budget test, tags being unique(vibeTags).
TagsMet(hayText, tags) == TextMeets(hayText, tags, cuisineIntentFromTags(tags))

\* Mutant: the budget is not checked.
matchesHardConstraints_NoBudget(c, criteria) ==
  TagsMet(HayOf(c), unique(criteria.vibeTags))

matchesHardConstraints(c, criteria) ==
  IF /\ c.priceLevel # Null
     /\ \/ (criteria.minPrice # Null /\ c.priceLevel < criteria.minPrice)
        \/ (criteria.maxPrice # Null /\ c.priceLevel > criteria.maxPrice)
  THEN FALSE
  ELSE TagsMet(HayOf(c), unique(criteria.vibeTags))

\* scoreCandidate past its first three statements: the score and the
\* reasons, in the order they are pushed.
ScoreWith(c, criteria, hayText, tags, cuisineIntent, profileNeighborhoods, profileMin, profileMax) ==
  LET cuisineHit == \E k \in DOMAIN cuisineIntent : CuisineKeywordIn(hayText, cuisineIntent[k])
      softCount == Len(SelectSeq(tags, LAMBDA t : /\ t \notin HARD_DIETARY
                                                  /\ t \notin Range(cuisineIntent)
                                                  /\ includes(hayText, t)))
      inArea == \E nhood \in {normalize(c.neighborhood)} :
                  /\ nhood # <<>>
                  /\ \E k \in DOMAIN profileNeighborhoods :
                       \/ includes(nhood, profileNeighborhoods[k])
                       \/ includes(profileNeighborhoods[k], nhood)
      min == IF criteria.minPrice # Null THEN criteria.minPrice
             ELSE IF profileMin # Null THEN profileMin ELSE 1
      max == IF criteria.maxPrice # Null THEN criteria.maxPrice
             ELSE IF profileMax # Null THEN profileMax ELSE 4
      inBudget == c.priceLevel # Null /\ c.priceLevel >= min /\ c.priceLevel <= max
  IN [score |->
        (IF cuisineHit THEN 26 ELSE IF Len(cuisineIntent) > 0 THEN 0 - 40 ELSE 0)
        + softCount * 6
        + (IF inArea THEN 3 ELSE 0)
        + (IF c.priceLevel = Null THEN 0 ELSE IF inBudget THEN 4 ELSE 0 - 4)
        + (IF c.bookingUrl # <<>> THEN 1 ELSE 0),
      reasons |->
        (IF cuisineHit THEN <<"matches cuisine">> ELSE <<>>)
        \o (IF softCount > 0 THEN <<"matches vibe">> ELSE <<>>)
        \o (IF inArea THEN <<"in your preferred area">> ELSE <<>>)
        \o (IF inBudget THEN <<"within budget">> ELSE <<>>)
        \o (IF c.bookingUrl # <<>> THEN <<"bookable link available">> ELSE <<>>)]

scoreCandidate(c, criteria, profileNeighborhoods, profileMin, profileMax) ==
  ScoreWith(c, criteria, HayOf(c), unique(criteria.vibeTags),
            cuisineIntentFromTags(unique(criteria.vibeTags)),
            profileNeighborhoods, profileMin, profileMax)

\* <<max(3, hardTags.length), matched candidates up to that, depth up to 8>>
\* for which 0.65 * coverage + 0.35 * depth lies, as an IEEE-754 double, just
\* below the midpoint between two hundredths, so that toFixed(2) rounds it down.
TiesRoundedDown ==
  {<<3, 0, 4>>, <<3, 3, 4>>, <<4, 0, 4>>, <<4, 4, 4>>, <<4, 1, 6>>, <<5, 0, 4>>, <<5, 1, 4>>,
   <<5, 2, 4>>, <<5, 3, 4>>, <<6, 0, 4>>, <<7, 0, 4>>, <<8, 0, 4>>, <<8, 2, 6>>}

\* Mutant: a pick is accepted without the test.
PickValid_Trusting(c, tags) == TRUE

\* The re-check of rerankWithLlm: the text of the candidate satisfies the
\* cuisine intent and holds every dietary tag.
PickValid(c, tags) == TagsMet(HayOf(c), unique(tags))

\* Number((0.65 * m / k + 0.35 * d / 8).toFixed(2)), in hundredths.
Hundredths(k, m, d) ==
  IF <<k, m, d>> \in TiesRoundedDown THEN (65 * m * 8 + 35 * d * k) \div (8 * k)
  ELSE (2 * (65 * m * 8 + 35 * d * k) + 8 * k) \div (2 * 8 * k)

\* confidenceScore past its first three statements.
ConfidenceFor(candidates, tags, cuisineIntent) ==
  LET hardCount == Len(SelectSeq(tags, LAMBDA t : \/ t \in HARD_DIETARY
                                                  \/ t \in CUISINE_HINTS
                                                  \/ t \in Range(cuisineIntent)))
      matchedCount == Len(SelectSeq(candidates,
                                    LAMBDA c : TextMeets(HayOf(c), tags, cuisineIntent)))
  IN IF hardCount = 0 THEN (IF Len(candidates) >= 3 THEN 75 ELSE 45)
     ELSE Hundredths(Max(3, hardCount), Min(matchedCount, Max(3, hardCount)),
                     Min(Len(candidates), 8))

\* confidenceScore, in hundredths.
confidenceScore(candidates, criteria) ==
  IF Len(candidates) = 0 THEN 0
  ELSE ConfidenceFor(candidates, unique(criteria.vibeTags),
                     cuisineIntentFromTags(unique(criteria.vibeTags)))

\* /\s*[-|]\s*(word).*$/i removed: the text is cut before the first "-" or
\* "|" that is followed, after optional whitespace, by one of the words.
SkipWhitespace(s, i) ==
  CHOOSE j \in i..(Len(s) + 1) :
    /\ j = Len(s) + 1 \/ s[j] \notin Whitespace
    /\ \A k \in i..(j - 1) : s[k] \in Whitespace

StartsWithAt(s, i, word) ==
  /\ i + Len(word) - 1 <= Len(s)
  /\ \A k \in DOMAIN word : toLowerCase(s[i + k - 1]) = word[k]

StripTrailingWhitespace(s) ==
  LET n == CHOOSE j \in 0..Len(s) :
             /\ j = 0 \/ s[j] \notin Whitespace
             /\ \A k \in (j + 1)..Len(s) : s[k] \in Whitespace
  IN SubSeq(s, 1, n)

CutFrom(s, words) ==
  LET hits == {i \in DOMAIN s :
                 /\ s[i] \in {"-", "|"}
                 /\ \E w \in words : StartsWithAt(s, SkipWhitespace(s, i + 1), w)}
  IN IF hits = {} THEN s
     ELSE StripTrailingWhitespace(
            SubSeq(s, 1, (CHOOSE i \in hits : \A j \in hits : i <= j) - 1))

cleanWebTitle(title) ==
  trim(CutFrom(CutFrom(title, {<<"d","e","n","v","e","r">>, <<"c","o","l","o","r","a","d","o">>, <<"c","o">>}),
               {<<"o","p","e","n","t","a","b","l","e">>, <<"y","e","l","p">>, <<"t","r","i","p","a","d","v","i","s","o","r">>, <<"i","n","f","a","t","u","a","t","i","o","n">>, <<"w","e","s","t","w","o","r","d">>}))

banned ==
  {<<"b","e","s","t"," ","s","u","s","h","i">>, <<"t","o","p">>, <<"g","u","i","d","e">>, <<"u","p","d","a","t","e","d">>, <<"r","e","s","t","a","u","r","a","n","t","s"," ","i","n"," ","d","e","n","v","e","r">>, <<"t","r","i","p","a","d","v","i","s","o","r">>,
   <<"y","e","l","p">>, <<"i","n","f","a","t","u","a","t","i","o","n">>, <<"w","e","s","t","w","o","r","d">>, <<"v","i","s","i","t"," ","d","e","n","v","e","r">>}

looksLikeRestaurantName(title) ==
  \E t \in {normalize(title)} : t # <<>> /\ ~\E b \in banned : includes(t, b)

\* normalize(name).replace(/\s+/g, "-")
Slug(name) ==
  LET n == normalize(name) IN [i \in DOMAIN n |-> IF n[i] = " " THEN "-" ELSE n[i]]

\* encodeURIComponent over the characters the model uses: a space becomes
\* %20, an unreserved character stays.
encodeURIComponent(s) ==
  LET width(i) == IF s[i] = " " THEN 3 ELSE 1
      start == [i \in DOMAIN s |-> i + 2 * Cardinality({j \in 1..(i - 1) : s[j] = " "})]
      total == Len(s) + 2 * Cardinality({j \in DOMAIN s : s[j] = " "})
  IN [p \in 1..total |->
        LET i == CHOOSE i \in DOMAIN s : start[i] <= p /\ p < start[i] + width(i)
        IN IF s[i] = " " THEN <<"%", "2", "0">>[p - start[i] + 1] ELSE s[i]]

\* The decimal text of a loop index.
IndexText(i) == IF i = 0 THEN <<"0">> ELSE <<Digit[i]>>

seeds ==
  <<<<"S","u","s","h","i"," ","D","e","n">>, <<"T","e","m","a","k","i"," ","D","e","n">>, <<"M","a","t","s","u","h","i","s","a"," ","D","e","n","v","e","r">>, <<"B","l","u","e"," ","S","u","s","h","i"," ","S","a","k","e"," ","G","r","i","l","l">>>>

seededWebCuisineCandidates(criteria) ==
  IF \E cuisine \in Range(cuisineIntentFromTags(criteria.vibeTags)) :
       cuisine \in {<<"s","u","s","h","i">>, <<"j","a","p","a","n","e","s","e">>, <<"o","m","a","k","a","s","e">>}
  THEN [i \in DOMAIN seeds |->
          [id |-> <<"w","e","b",":","s","e","e","d",":","s","u","s","h","i",":">> \o IndexText(i - 1) \o <<":">> \o Slug(seeds[i]),
           name |-> seeds[i],
           neighborhood |-> <<>>,
           priceLevel |-> Null,
           bookingUrl |-> <<"h","t","t","p","s",":","/","/","d","u","c","k","d","u","c","k","g","o",".","c","o","m","/","?","q","=">>
                          \o encodeURIComponent(seeds[i] \o <<" ","d","e","n","v","e","r"," ","r","e","s","e","r","v","a","t","i","o","n","s">>),
           notes |-> <<"C","u","i","s","i","n","e","-","s","e","e","d","e","d"," ","l","i","v","e"," ","w","e","b"," ","c","a","n","d","i","d","a","t","e">>,
           source |-> "web",
           tagsText |-> <<"s","u","s","h","i"," ","j","a","p","a","n","e","s","e">>]]
  ELSE <<>>

\* dedupeCandidates: the first candidate of each normalised name, those
\* without one dropped.
dedupeCandidates(list) ==
  LET keys == [k \in DOMAIN list |-> normalize(list[k].name)]
      kept == SelectSeq([k \in DOMAIN list |-> k],
                        LAMBDA k : keys[k] # <<>> /\ \A j \in 1..(k - 1) : keys[j] # keys[k])
  IN [k \in DOMAIN kept |-> list[kept[k]]]

\* decodeURIComponent over the escapes the model uses.
Escapes == {<<"%","3","A">>, <<"%","2","F">>, <<"%","2","0">>}
Unescaped(e) == IF e = <<"%","3","A">> THEN ":" ELSE IF e = <<"%","2","F">> THEN "/" ELSE " "
decodeURIComponent(s) ==
  LET escapeAt(i) == i >= 1 /\ i + 2 <= Len(s) /\ <<s[i], s[i + 1], s[i + 2]>> \in Escapes
      kept == SelectSeq([i \in DOMAIN s |-> i],
                        LAMBDA i : ~escapeAt(i - 1) /\ ~escapeAt(i - 2))
  IN [k \in DOMAIN kept |->
        IF escapeAt(kept[k])
        THEN Unescaped(<<s[kept[k]], s[kept[k] + 1], s[kept[k] + 2]>>)
        ELSE s[kept[k]]]

\* url.searchParams.get("uddg"): the decoded text between "uddg=" and the
\* next "&", empty when the parameter is absent.
UddgParam(href) ==
  LET starts == {i \in DOMAIN href : i + 4 <= Len(href) /\ SubSeq(href, i, i + 4) = <<"u","d","d","g","=">>}
  IN IF starts = {} THEN <<>>
     ELSE LET from == (CHOOSE i \in starts : \A j \in starts : i <= j) + 5
              stops == {i \in from..Len(href) : href[i] = "&"}
              to == IF stops = {} THEN Len(href)
                    ELSE (CHOOSE i \in stops : \A j \in stops : i <= j) - 1
          IN decodeURIComponent(SubSeq(href, from, to))

\* decodeDuckDuckGoHref: an absolute href is kept, a DuckDuckGo redirect
\* gives its uddg target, any other href is resolved against
\* https://duckduckgo.com.
decodeDuckDuckGoHref(href) ==
  IF href = <<>> THEN <<>>
  ELSE IF Len(href) >= 4 /\ SubSeq(href, 1, 4) = <<"h","t","t","p">> THEN href
  ELSE LET uddg == UddgParam(href)
       IN IF uddg # <<>> THEN decodeURIComponent(uddg)
          ELSE IF Len(href) >= 2 /\ SubSeq(href, 1, 2) = <<"/","/">> THEN <<"h","t","t","p","s",":">> \o href
          ELSE IF href[1] = "/" THEN <<"h","t","t","p","s",":","/","/","d","u","c","k","d","u","c","k","g","o",".","c","o","m">> \o href
          ELSE <<"h","t","t","p","s",":","/","/","d","u","c","k","d","u","c","k","g","o",".","c","o","m","/">> \o href

\* webAugment: outcome is what the search request did ("ok", "error" for a
\* non-2xx reply, "throw"), matches the <a class="result__a"> anchors of the
\* page as <<href, inner text>> pairs.
QueryCore(tags) ==
  LET cuisineIntent == cuisineIntentFromTags(tags)
  IN IF Len(cuisineIntent) > 0 THEN JoinSpace(cuisineIntent)
     ELSE IF Len(tags) > 0 THEN JoinSpace(tags) ELSE <<"r","e","s","t","a","u","r","a","n","t","s">>

\* The anchors as candidates, those without a title or with a title that
\* does not look like a restaurant's name left out.
ParsedResults(matches, queryCore) ==
  SelectSeq(
    [i \in 1..Min(Len(matches), 16) |->
       [id |-> <<"w","e","b",":">> \o IndexText(i - 1) \o <<":">>
               \o Slug(cleanWebTitle(trim(CollapseWhitespace(matches[i][2])))),
        name |-> cleanWebTitle(trim(CollapseWhitespace(matches[i][2]))),
        neighborhood |-> <<>>,
        priceLevel |-> Null,
        bookingUrl |-> decodeDuckDuckGoHref(matches[i][1]),
        notes |-> <<"L","i","v","e"," ","w","e","b"," ","c","a","n","d","i","d","a","t","e"," ","(","D","u","c","k","D","u","c","k","G","o"," ","a","u","g","m","e","n","t","a","t","i","o","n",")">>,
        source |-> "web",
        tagsText |-> queryCore]],
    LAMBDA p : p.name # <<>> /\ looksLikeRestaurantName(p.name))

webAugment(criteria, outcome, matches) ==
  IF outcome = "throw" THEN seededWebCuisineCandidates(criteria)
  ELSE IF outcome = "error" THEN <<>>
  ELSE Take(dedupeCandidates(
              seededWebCuisineCandidates(criteria)
              \o ParsedResults(matches, QueryCore(unique(criteria.vibeTags)))),
            12)

\* Mutant: the dietary tags are dropped.
relaxCuisineTags_DropDietary(tags) ==
  SelectSeq(unique(tags), LAMBDA t : t \notin HARD_DIETARY)

\* relaxCuisineTags: with more than one cuisine inferred, the tags that name
\* another cuisine than the first are dropped.
relaxCuisineTags(tags) ==
  LET cuisineIntent == cuisineIntentFromTags(unique(tags))
  IN IF Len(cuisineIntent) <= 1 THEN unique(tags)
     ELSE SelectSeq(unique(tags),
                    LAMBDA t : \/ t \in HARD_DIETARY
                               \/ \E tagCuisine \in {cuisineIntentFromTags(<<t>>)} :
                                    \/ Len(tagCuisine) = 0
                                    \/ cuisineIntent[1] \in Range(tagCuisine))

\* A candidate as a recommendation.
Recommendation(c, reason, tradeoff) ==
  [id |-> c.id, name |-> c.name, neighborhood |-> c.neighborhood,
   priceLevel |-> c.priceLevel, bookingUrl |-> c.bookingUrl, source |-> c.source,
   reason |-> reason, tradeoff |-> tradeoff]

\* byId.get(id): the last candidate that carries the id.
ById(candidates, id) ==
  candidates[CHOOSE k \in DOMAIN candidates :
               /\ candidates[k].id = id
               /\ \A j \in DOMAIN candidates : candidates[j].id = id => j <= k]

\* The first three of the accepted rows as recommendations.
PicksOf(candidates, accepted) ==
  [k \in 1..Min(Len(accepted), 3) |->
     Recommendation(ById(candidates, accepted[k].id),
                    IF accepted[k].reason = "absent"
                    THEN "Strong fit for your criteria."
                    ELSE accepted[k].reason,
                    IF accepted[k].tradeoff = "absent"
                    THEN "May require flexibility on timing."
                    ELSE accepted[k].tradeoff)]

\* rerankWithLlm: key is whether OPENAI_API_KEY is set, outcome what the
\* completion request did ("ok", "error" for a non-2xx reply or an empty
\* content, "throw" for a rejected fetch or unparseable JSON), picksRaw the
\* rows of parsed.picks.  The prompt carries the first 18 candidates; the
\* answer is looked up among all of them.
rerankWithLlm(criteria, candidates, key, outcome, picksRaw) ==
  IF ~key \/ Len(candidates) = 0 THEN [picks |-> <<>>, llmUsed |-> FALSE]
  ELSE IF outcome # "ok" THEN [picks |-> <<>>, llmUsed |-> FALSE]
  ELSE LET picks == PicksOf(candidates,
                            SelectSeq(picksRaw, LAMBDA row :
                              /\ row.id # <<>>
                              /\ \E k \in DOMAIN candidates : candidates[k].id = row.id
                              /\ PickValid(ById(candidates, row.id), criteria.vibeTags)))
       IN [picks |-> picks, llmUsed |-> Len(picks) > 0]

(***************************************************************************)
(* One request to the recommend endpoint and what its upstreams answer.    *)
(***************************************************************************)
MaxOffset == 2
MaxRawPicks == 4

\* The rows of table restaurants for the profile.
Catalog ==
  {[id |-> <<"r","1">>, name |-> <<"Z","e","t","a"," ","T","h","a","i">>, neighborhood |-> <<"L","o","H","i">>, price_level |-> 2,
    booking_url |-> <<>>, notes |-> <<>>, vibe_tags |-> <<<<"T","h","a","i">>, <<"V","e","g","e","t","a","r","i","a","n">>>>],
   [id |-> <<"r","2">>, name |-> <<"a","l","p","h","a"," ","t","h","a","i">>, neighborhood |-> <<"L","o","H","i">>, price_level |-> 2,
    booking_url |-> <<>>, notes |-> <<>>, vibe_tags |-> <<<<"t","h","a","i">>, <<"v","e","g","e","t","a","r","i","a","n">>>>],
   [id |-> <<"r","3">>, name |-> <<"G","r","e","e","n"," ","F","o","r","k">>, neighborhood |-> <<"R","i","N","o">>, price_level |-> 3,
    booking_url |-> <<"h","t","t","p","s",":","/","/","g","r","e","e","n","f","o","r","k",".","e","x","a","m","p","l","e">>, notes |-> <<>>,
    vibe_tags |-> <<<<"v","e","g","e","t","a","r","i","a","n">>, <<"D","a","t","e","-","N","i","g","h","t">>>>],
   [id |-> <<"r","4">>, name |-> <<"S","u","s","h","i"," ","K","o">>, neighborhood |-> <<>>, price_level |-> Null,
    booking_url |-> <<>>, notes |-> <<"O","m","a","k","a","s","e"," ","c","o","u","n","t","e","r">>, vibe_tags |-> <<<<"s","u","s","h","i">>, <<"v","e","g","e","t","a","r","i","a","n">>>>],
   [id |-> <<"r","5">>, name |-> <<"P","a","s","t","a"," ","B","a","r">>, neighborhood |-> <<"H","i","g","h","l","a","n","d">>, price_level |-> 1,
    booking_url |-> <<"h","t","t","p","s",":","/","/","p","a","s","t","a","b","a","r",".","e","x","a","m","p","l","e">>, notes |-> <<>>,
    vibe_tags |-> <<<<"i","t","a","l","i","a","n">>, <<"d","a","t","e"," ","n","i","g","h","t">>>>],
   [id |-> <<"r","6">>, name |-> <<"O","a","k"," ","G","r","i","l","l">>, neighborhood |-> <<"L","o","H","i">>, price_level |-> 4,
    booking_url |-> <<>>, notes |-> <<>>, vibe_tags |-> <<<<"s","t","e","a","k">>>>]}

\* Code-point order of the characters of the names.
Ascii ==
  <<" ", "-", "0", "1", "2", "3", "4", "5", "6", "7", "8", "9",
    "A", "B", "C", "D", "E", "F", "G", "H", "I", "J", "K", "L", "M", "N", "O", "P", "Q", "R",
    "S", "T", "U", "V", "W", "X", "Y", "Z",
    "a", "b", "c", "d", "e", "f", "g", "h", "i", "j", "k", "l", "m", "n", "o", "p", "q", "r",
    "s", "t", "u", "v", "w", "x", "y", "z">>
CharCode(ch) == CHOOSE i \in DOMAIN Ascii : Ascii[i] = ch

\* a <= b in lexicographic order.
RECURSIVE LexLessEq(_, _)
LexLessEq(a, b) ==
  IF a = <<>> THEN TRUE
  ELSE IF b = <<>> THEN FALSE
  ELSE IF a[1] = b[1] THEN LexLessEq(Tail(a), Tail(b))
  ELSE CharCode(a[1]) < CharCode(b[1])

LowerCased(s) == [i \in DOMAIN s |-> toLowerCase(s[i])]

\* order=name.asc: the rows by name, under a collation that compares code
\* points or one that ignores case, whichever the database was created with.
RECURSIVE OrderByName(_, _)
OrderByName(rows, ignoreCase) ==
  IF rows = {} THEN <<>>
  ELSE LET key(r) == IF ignoreCase THEN LowerCased(r.name) ELSE r.name
           first == CHOOSE r \in rows : \A q \in rows : LexLessEq(key(r), key(q))
       IN <<first>> \o OrderByName(rows \ {first}, ignoreCase)

\* The row of table profiles.
Profile == [neighborhoods |-> <<<<"L","o","H","i">>>>, price_min |-> 1, price_max |-> 4]

\* <<minPrice, maxPrice>> of the request.
PriceChoices == {<<Null, Null>>, <<1, 2>>, <<3, 1>>}

Modes == {"default", "regenerate", "tighten", "broaden"}

\* The offsets a request of a mode carries: the client advances the offset
\* with a regenerate request and repeats it with the others.
OffsetsFor(mode) == IF mode = "default" THEN {0} ELSE 0..MaxOffset

\* What the search page may hold: <<href, anchor text>> pairs.
WebResultLists ==
  {<<>>,
   <<<<<<"h","t","t","p","s",":","/","/","t","a","k","i",".","e","x","a","m","p","l","e">>, <<"T","a","k","i"," "," ","S","u","s","h","i">>>>,
     <<<<"h","t","t","p","s",":","/","/","y","e","l","p",".","e","x","a","m","p","l","e","/","b","e","s","t">>, <<"B","e","s","t"," ","S","u","s","h","i"," ","i","n"," ","D","e","n","v","e","r"," ","-"," ","Y","e","l","p">>>>>>,
   <<<<<<"/","/","d","u","c","k","d","u","c","k","g","o",".","c","o","m","/","l","/","?","u","d","d","g","=","h","t","t","p","s","%","3","A","%","2","F","%","2","F","s","u","s","h","i","d","e","n",".","e","x","a","m","p","l","e","&","r","u","t","=","1">>, <<"S","u","s","h","i"," ","D","e","n"," ","|"," ","D","e","n","v","e","r",","," ","C","O">>>>>>,
   <<<<<<"h","t","t","p","s",":","/","/","a","l","p","h","a","t","h","a","i",".","e","x","a","m","p","l","e">>, <<"A","l","p","h","a"," ","T","h","a","i">>>>>>}

WebAnswers ==
  {[outcome |-> "throw", matches |-> <<>>], [outcome |-> "error", matches |-> <<>>]}
  \cup {[outcome |-> "ok", matches |-> m] : m \in WebResultLists}

\* What the completion may answer for a pool of candidates.
LlmAnswers(candidates, key) ==
  IF ~key \/ Len(candidates) = 0 THEN {[outcome |-> "error", picks |-> <<>>]}
  ELSE LET n == Min(Len(candidates), MaxRawPicks)
           row(id, reason) == [id |-> id, reason |-> reason, tradeoff |-> reason]
       IN {[outcome |-> "error", picks |-> <<>>],
           [outcome |-> "throw", picks |-> <<>>],
           [outcome |-> "ok", picks |-> <<>>],
           [outcome |-> "ok", picks |-> [k \in 1..n |-> row(candidates[k].id, "Fits the request.")]],
           [outcome |-> "ok",
            picks |-> [k \in 1..n |-> row(candidates[Len(candidates) + 1 - k].id, "absent")]],
           [outcome |-> "ok",
            picks |-> <<row(<<"r","0">>, "absent"), row(candidates[1].id, "absent"),
                        row(candidates[1].id, "absent")>>]}

\* POST, lines 907-922: defaults for the price bounds, swapped when they are
\* the wrong way round, and the tags made unique.
NormalizeCriteria(criteria) ==
  LET min0 == IF criteria.minPrice = Null THEN 1 ELSE criteria.minPrice
      max0 == IF criteria.maxPrice = Null THEN 4 ELSE criteria.maxPrice
  IN [vibeTags |-> unique(criteria.vibeTags),
      minPrice |-> IF min0 > max0 THEN max0 ELSE min0,
      maxPrice |-> IF min0 > max0 THEN min0 ELSE max0]

\* candidates scored and sorted, as POST does twice.
ScoreAndSort(candidates, criteria) ==
  SortByScoreDesc(
    [k \in DOMAIN candidates |->
       LET s == scoreCandidate(candidates[k], criteria,
                               [j \in DOMAIN Profile.neighborhoods |->
                                  normalize(Profile.neighborhoods[j])],
                               Profile.price_min, Profile.price_max)
       IN [candidate |-> candidates[k], score |-> s.score, reasons |-> s.reasons]])

InitRecommend ==
  /\ CronIdle
  /\ OPENAI_API_KEY \in BOOLEAN
  /\ divArgs = [preferredIds |-> <<>>, candidateIds |-> <<>>, articles |-> <<>>,
                target |-> 0, maxPerSource |-> 1, minSources |-> 1]
  /\ divResult = [done |-> TRUE, ids |-> <<>>]
  /\ RecIdle
  /\ ChatIdle
  /\ recRestaurants \in {OrderByName(Catalog, FALSE), OrderByName(Catalog, TRUE)}
  /\ silent = {}

\* An awaited fetch settles when its upstream answers or its abort timer
\* fires; the handler resumes only then.  The feed and article fetches of
\* the weekly run are aborted after 10 s; the reads of supabase-server.ts,
\* the search page of webAugment and the completion of rerankWithLlm pass
\* no signal to fetch.
Settles(upstream) == upstream \notin silent \/ upstream \in {"feed", "article"}

\* fetchProfile and fetchRestaurantsForProfile as POST awaits them, lines
\* 926-933: each read ends "ok", "error" (a non-2xx reply, which fetchProfile
\* turns into null and fetchRestaurantsForProfile into no rows) or "throw"
\* (fetch or the configuration lookup throws); the profile read may also
\* find no row ("none"); a profile read that throws leaves the restaurants
\* unread.
PersistenceReads ==
  {[profile |-> "throw", restaurants |-> "pending"]}
  \cup [profile : {"ok", "none", "error"}, restaurants : {"ok", "error", "throw"}]

\* Mutant: only a broaden request augments.
needWebAugmentation_BroadenOnly(mode, poolSize, confidence) == mode = "broaden"

\* POST, lines 973-976: needWebAugmentation, the confidence in hundredths.
needWebAugmentation(mode, poolSize, confidence) ==
  mode = "broaden" \/ poolSize < 6 \/ confidence < 65

\* POST up to the decision to augment: the body is read, the criteria
\* normalised, profile and restaurants fetched (a throw answers 500, no
\* profile 404, a non-2xx reply for the restaurants gives no rows), the
\* catalog filtered, filtered once more with relaxed tags when nothing
\* passed, scored and sorted.
PostFilter ==
  /\ recPc = "idle"
  /\ Settles("persistence")
  /\ \E tags \in TagLists, prices \in PriceChoices, read \in PersistenceReads :
     \E rowsOk \in {read.restaurants = "ok"} :
     \E criteria \in {[vibeTags |-> tags, minPrice |-> prices[1], maxPrice |-> prices[2]]} :
     \E rows \in {IF rowsOk THEN recRestaurants ELSE <<>>} :
     \E nc0 \in {NormalizeCriteria(criteria)} :
     \E db \in {[k \in DOMAIN rows |-> candidateFromRestaurant(rows[k])]} :
     \E strict \in {SelectSeq(db, LAMBDA c : matchesHardConstraints(c, nc0))} :
     \E retry \in {Len(strict) = 0 /\ Len(nc0.vibeTags) > 0} :
     \E relaxed \in {IF retry
                      THEN [nc0 EXCEPT !.vibeTags = relaxCuisineTags(nc0.vibeTags)]
                      ELSE NoCriteria} :
     \E flt \in {IF retry THEN SelectSeq(db, LAMBDA c : matchesHardConstraints(c, relaxed))
                  ELSE strict} :
     \E nc \in {IF retry /\ Len(flt) > 0 THEN relaxed ELSE nc0} :
     \E sc \in {ScoreAndSort(flt, nc)} :
     \E wc \in {[k \in DOMAIN sc |-> sc[k].candidate]} :
     \E conf \in {confidenceScore(wc, nc)} :
     \E mode \in Modes :
     \E outcome \in {IF "throw" \in {read.profile, read.restaurants} THEN "throw"
                      ELSE IF read.profile # "ok" THEN "no profile" ELSE "ok"} :
     \E offset \in OffsetsFor(mode) :
       /\ body' = [criteria |-> criteria, mode |-> mode, offset |-> offset]
       /\ reads' = read
       /\ IF outcome \in {"throw", "no profile"}
          THEN /\ recPc' = "done"
               /\ response' = [status |-> IF outcome = "throw" THEN 500 ELSE 404,
                               confidence |-> 0]
               /\ UNCHANGED <<normalizedCriteria, dbCandidates, filtered, constraintRelaxed,
                              relaxedCriteria, filterPasses, scored, workingCandidates,
                              baseConfidence>>
          ELSE /\ recPc' = IF needWebAugmentation(mode, Len(wc), conf)
                           THEN "web" ELSE "rerank"
               /\ normalizedCriteria' = nc
               /\ dbCandidates' = db
               /\ filtered' = flt
               /\ constraintRelaxed' = (retry /\ Len(flt) > 0)
               /\ relaxedCriteria' = relaxed
               /\ filterPasses' = IF retry THEN 2 ELSE 1
               /\ scored' = [k \in DOMAIN sc |-> [id |-> sc[k].candidate.id,
                                                  name |-> sc[k].candidate.name,
                                                  score |-> sc[k].score]]
               /\ workingCandidates' = wc
               /\ baseConfidence' = conf
               /\ UNCHANGED response
  /\ UNCHANGED <<recRestaurants, silent, sourceMode, webAdded, webRan, rawPicks, rerank, fallbackRanking,
                 recommendations, cronVars, divVars, chatVars>>

\* POST, lines 977-984: the web candidates are merged into the pool.
PostWebAugment ==
  /\ recPc = "web"
  /\ Settles("web")
  /\ \E answer \in WebAnswers :
     \E webCandidates \in {webAugment(normalizedCriteria, answer.outcome, answer.matches)} :
       /\ webAdded' = Len(webCandidates)
       /\ IF Len(webCandidates) > 0
          THEN /\ workingCandidates' = dedupeCandidates(workingCandidates \o webCandidates)
               /\ sourceMode' = "hybrid"
          ELSE UNCHANGED <<workingCandidates, sourceMode>>
  /\ webRan' = TRUE
  /\ recPc' = "rerank"
  /\ UNCHANGED <<recRestaurants, reads, silent, body, normalizedCriteria, dbCandidates, filtered,
                 constraintRelaxed, relaxedCriteria, filterPasses, scored, baseConfidence,
                 rawPicks, rerank, fallbackRanking, recommendations, response, cronVars, divVars, chatVars>>

\* POST, lines 986-1043: the reranker, the scorer fallback when it gives no
\* pick, the confidence of the result, the response.
PostRerank ==
  /\ recPc = "rerank"
  /\ (OPENAI_API_KEY /\ Len(workingCandidates) > 0) => Settles("llm")
  /\ \E answer \in LlmAnswers(workingCandidates, OPENAI_API_KEY) :
     \E rr \in {rerankWithLlm(normalizedCriteria, workingCandidates, OPENAI_API_KEY,
                              answer.outcome, answer.picks)} :
     \E rk \in {IF Len(rr.picks) = 0 THEN ScoreAndSort(workingCandidates, normalizedCriteria)
                ELSE <<>>} :
     \E start \in {IF Len(workingCandidates) > 0 THEN body.offset % Max(1, Len(rk)) ELSE 0} :
     \E rotated \in {SubSeq(rk, start + 1, Len(rk)) \o SubSeq(rk, 1, start)} :
     \E recs \in {IF Len(rr.picks) = 0
                  THEN [k \in 1..Min(3, Len(rotated)) |->
                          Recommendation(
                            rotated[k].candidate,
                            IF Len(rotated[k].reasons) > 0 THEN rotated[k].reasons[1]
                            ELSE "Strong fit for your preferences.",
                            "Consider flexibility on time window for best availability.")]
                  ELSE rr.picks} :
       /\ rawPicks' = answer.picks
       /\ rerank' = rr
       /\ fallbackRanking' = [k \in DOMAIN rk |-> [id |-> rk[k].candidate.id,
                                                   name |-> rk[k].candidate.name,
                                                   score |-> rk[k].score]]
       /\ recommendations' = recs
       /\ response' = [status |-> 200,
                       confidence |->
                         confidenceScore(
                           [k \in DOMAIN recs |->
                              [id |-> recs[k].id, name |-> recs[k].name,
                               neighborhood |-> recs[k].neighborhood,
                               priceLevel |-> recs[k].priceLevel,
                               bookingUrl |-> recs[k].bookingUrl, notes |-> <<>>,
                               source |-> recs[k].source, tagsText |-> <<>>]],
                           normalizedCriteria)]
  /\ recPc' = "done"
  /\ UNCHANGED <<recRestaurants, reads, silent, body, normalizedCriteria, dbCandidates, filtered,
                 constraintRelaxed, relaxedCriteria, filterPasses, scored, workingCandidates,
                 baseConfidence, sourceMode, webAdded, webRan, cronVars, divVars, chatVars>>

NextRecommend == PostFilter \/ PostWebAugment \/ PostRerank

SpecRecommend == InitRecommend /\ [][NextRecommend]_vars

\* One request served while one of the upstreams never answers.
InitRecommendSilent ==
  /\ CronIdle
  /\ OPENAI_API_KEY \in BOOLEAN
  /\ divArgs = [preferredIds |-> <<>>, candidateIds |-> <<>>, articles |-> <<>>,
                target |-> 0, maxPerSource |-> 1, minSources |-> 1]
  /\ divResult = [done |-> TRUE, ids |-> <<>>]
  /\ RecIdle
  /\ ChatIdle
  /\ recRestaurants \in {OrderByName(Catalog, FALSE), OrderByName(Catalog, TRUE)}
  /\ \E upstream \in {"persistence", "web", "llm"} : silent = {upstream}

SpecRecommendSilent == InitRecommendSilent /\ [][NextRecommend]_vars

(***************************************************************************)
(* The planning page, src/unnamed/part_002, and the chat endpoint it       *)
(* calls, POST of /api/plan/chat.  The page's criteria are modelled by     *)
(* their tags and price bounds; the dates and the party size are patched   *)
(* field by field in the same statements and take no part in the swap or   *)
(* in the tag merge.                                                       *)
(***************************************************************************)
PREFERENCE_KEYWORDS ==
  <<<<"r","o","m","a","n","t","i","c">>, <<"c","a","s","u","a","l">>, <<"l","i","v","e","l","y">>, <<"c","o","z","y">>, <<"u","p","s","c","a","l","e">>, <<"i","n","t","i","m","a","t","e">>, <<"c","e","l","e","b","r","a","t","o","r","y">>,
    <<"l","o","w","-","k","e","y">>, <<"t","r","e","n","d","y">>, <<"q","u","i","e","t">>, <<"o","u","t","d","o","o","r">>, <<"d","a","t","e"," ","n","i","g","h","t">>, <<"c","o","o","l">>, <<"i","t","a","l","i","a","n">>, <<"m","e","x","i","c","a","n">>,
    <<"j","a","p","a","n","e","s","e">>, <<"s","u","s","h","i">>, <<"k","o","r","e","a","n">>, <<"c","h","i","n","e","s","e">>, <<"t","h","a","i">>, <<"v","i","e","t","n","a","m","e","s","e">>, <<"f","r","e","n","c","h">>, <<"s","p","a","n","i","s","h">>,
    <<"m","e","d","i","t","e","r","r","a","n","e","a","n">>, <<"s","t","e","a","k","h","o","u","s","e">>, <<"s","e","a","f","o","o","d">>, <<"p","i","z","z","a">>, <<"b","r","u","n","c","h">>, <<"c","o","c","k","t","a","i","l","s">>,
    <<"v","e","g","e","t","a","r","i","a","n">>, <<"v","e","g","a","n">>, <<"g","l","u","t","e","n"," ","f","r","e","e">>, <<"g","l","u","t","e","n","-","f","r","e","e">>>>

\* uniquePhrases and normalizePhrase have the text of unique and normalize
\* of the recommend route.
uniquePhrases(items) == unique(items)

\* (\${1,4}) at index i: the length of the run of dollar signs, 4 at most.
DollarRun(s, i) ==
  CHOOSE n \in 0..4 :
    /\ \A k \in 0..(n - 1) : i + k <= Len(s) /\ s[i + k] = "$"
    /\ n = 4 \/ i + n > Len(s) \/ s[i + n] # "$"

\* word\s*(\${1,4}) at index i: the length of the group, 0 for no match.
DollarsAfter(s, i, word) ==
  IF StartsWithAt(s, i, word) THEN DollarRun(s, SkipWhitespace(s, i + Len(word))) ELSE 0

\* /between\s*(\${1,4})\s*and\s*(\${1,4})/ at index i: <<min, max>> of the
\* two groups, <<Null, Null>> for no match.
BetweenAt(s, i) ==
  LET a == DollarsAfter(s, i, <<"b","e","t","w","e","e","n">>)
      k == SkipWhitespace(s, SkipWhitespace(s, i + 7) + a)
      b == DollarsAfter(s, k, <<"a","n","d">>)
  IN IF a > 0 /\ b > 0 THEN <<Min(a, b), Max(a, b)>> ELSE <<Null, Null>>

\* The price part of parseMessageForCriteria: <<minPrice, maxPrice>>, Null
\* for a bound the message does not set.
PricesIn(s) ==
  LET first(S) == CHOOSE i \in S : \A j \in S : i <= j
      between == {i \in DOMAIN s : BetweenAt(s, i)[1] # Null}
      under == {i \in DOMAIN s :
                  \E w \in {<<"u","n","d","e","r">>, <<"u","p"," ","t","o">>, <<"m","a","x">>} : DollarsAfter(s, i, w) > 0}
      exact == {i \in DOMAIN s : s[i] = "$"}
  IN IF between # {} THEN BetweenAt(s, first(between))
     ELSE IF under # {}
     THEN <<Null, CHOOSE n \in 1..4 :
                    \E w \in {<<"u","n","d","e","r">>, <<"u","p"," ","t","o">>, <<"m","a","x">>} : DollarsAfter(s, first(under), w) = n>>
     ELSE IF exact # {}
     THEN <<DollarRun(s, first(exact)), DollarRun(s, first(exact))>>
     ELSE <<Null, Null>>

\* parseMessageForCriteria on a message that holds none of the words
\* extractFreeformPreferences looks for (prefer, preference for, look for,
\* looking for, something, want), so that foundFreeform is empty.  vibeTags
\* is empty when the parser leaves the key out.
parseMessageForCriteria(text) ==
  LET lowered == [i \in DOMAIN text |-> toLowerCase(text[i])]
      lower == StripTrailingWhitespace(
                 SubSeq(lowered, SkipWhitespace(lowered, 1), Len(lowered)))
      prices == PricesIn(lower)
  IN [vibeTags |-> uniquePhrases(SelectSeq(PREFERENCE_KEYWORDS,
                                           LAMBDA v : includes(lower, v))),
      minPrice |-> prices[1],
      maxPrice |-> prices[2]]

\* parseVibeInput: value.split(/[,;]/) made unique.
parseVibeInput(value) ==
  LET cuts == <<0>> \o SelectSeq([i \in DOMAIN value |-> i],
                                 LAMBDA i : value[i] \in {",", ";"})
              \o <<Len(value) + 1>>
  IN uniquePhrases([k \in 1..(Len(cuts) - 1) |->
                      SubSeq(value, cuts[k] + 1, cuts[k + 1] - 1)])

\* Mutant: the bounds are left as they are.
SwapPrices_Never(c) == c

\* The swap each writer of the criteria ends with: both bounds set and
\* minPrice > maxPrice exchanges them.
SwapPrices(c) ==
  IF c.minPrice # Null /\ c.maxPrice # Null /\ c.minPrice > c.maxPrice
  THEN [c EXCEPT !.minPrice = c.maxPrice, !.maxPrice = c.minPrice]
  ELSE c

\* Mutant: the tags added replace the tags held.
MergeTags_Replace(held, added) == uniquePhrases(added)

\* uniquePhrases([...held, ...added]), in sendMessage's two merges.
MergeTags(held, added) == uniquePhrases(held \o added)

\* Mutant: every request is answered 200 with an empty patch.
ChatPost_Masking(key, outcome, rawPatch) ==
  [status |-> 200, minPrice |-> Null, maxPrice |-> Null, vibeTagsToAdd |-> <<>>]

\* POST of /api/plan/chat: key is whether OPENAI_API_KEY is set, outcome what
\* the completion request did ("ok", "error" for a non-2xx reply, "empty"
\* for a reply without content, "malformed" for content that is no JSON
\* object, "throw" for a rejected fetch), rawPatch the criteriaPatch of the
\* parsed content.  A bound outside 1..4 is left out, the bounds are swapped
\* when they are the wrong way round, the tags are normalised and the empty
\* ones dropped.
ChatPost(key, outcome, rawPatch) ==
  IF ~key \/ outcome # "ok"
  THEN [status |-> 500, minPrice |-> Null, maxPrice |-> Null, vibeTagsToAdd |-> <<>>]
  ELSE SwapPrices(
         [status |-> 200,
          minPrice |-> IF rawPatch.minPrice >= 1 /\ rawPatch.minPrice <= 4
                       THEN rawPatch.minPrice ELSE Null,
          maxPrice |-> IF rawPatch.maxPrice >= 1 /\ rawPatch.maxPrice <= 4
                       THEN rawPatch.maxPrice ELSE Null,
          vibeTagsToAdd |-> SelectSeq([k \in DOMAIN rawPatch.vibeTagsToAdd |->
                                         normalize(rawPatch.vibeTagsToAdd[k])],
                                      LAMBDA t : Len(t) > 0)])

\* The messages typed, the answers of the model, and the values chosen in
\* the price selects and typed into the tags field.
Messages ==
  {<<"G","l","u","t","e","n","-","F","r","e","e"," ","s","u","s","h","i"," ","u","p"," ","t","o"," "," ","$","$">>,
   <<"b","e","t","w","e","e","n"," ","$","$","$"," ","a","n","d"," ","$">>,
   <<"h","e","l","l","o">>}
RawPatches ==
  {[minPrice |-> 4, maxPrice |-> 2, vibeTagsToAdd |-> <<<<"S","u","s","h","i","!">>>>],
   [minPrice |-> 3, maxPrice |-> 9, vibeTagsToAdd |-> <<<<" ">>, <<"G","l","u","t","e","n","-","F","r","e","e">>>>]}
FormPrices == {Null, 2, 3}
VibeInputs == {<<"S","u","s","h","i",";"," ","s","u","s","h","i",",">>, <<>>}

InitChat ==
  /\ CronIdle
  /\ OPENAI_API_KEY \in BOOLEAN
  /\ divArgs = [preferredIds |-> <<>>, candidateIds |-> <<>>, articles |-> <<>>,
                target |-> 0, maxPerSource |-> 1, minSources |-> 1]
  /\ divResult = [done |-> TRUE, ids |-> <<>>]
  /\ RecIdle
  /\ recRestaurants = <<>>
  /\ silent = {}
  /\ ChatIdle

\* sendMessage up to its await: the message is parsed locally and the
\* criteria are patched with the result before the request leaves.
ChatSend ==
  /\ recPc = "idle"
  /\ ~isSending
  /\ \E text \in Messages :
     \E localParsed \in {parseMessageForCriteria(text)} :
     \E optimistic \in {SwapPrices(
                          [vibeTags |-> MergeTags(pageCriteria.vibeTags, localParsed.vibeTags),
                           minPrice |-> IF localParsed.minPrice # Null
                                        THEN localParsed.minPrice ELSE pageCriteria.minPrice,
                           maxPrice |-> IF localParsed.maxPrice # Null
                                        THEN localParsed.maxPrice ELSE pageCriteria.maxPrice])} :
       /\ optimisticCriteria' = optimistic
       /\ pageCriteria' = optimistic
  /\ isSending' = TRUE
  /\ UNCHANGED <<lastChatSource, chatResponse, cronVars, divVars, recVars>>

\* sendMessage from the answer of /api/plan/chat on: a 200 is merged into
\* the optimistic criteria and flagged llm; anything else, a rejected fetch
\* of the page included, leaves the optimistic criteria and is flagged
\* fallback.  The request for recommendations that may follow changes no
\* criteria and is the subject of RunAction.
ChatReply ==
  /\ recPc = "idle"
  /\ isSending
  /\ \E outcome \in {"ok", "error", "empty", "malformed", "throw", "unreachable"},
        rawPatch \in RawPatches :
     \E res \in {IF outcome = "unreachable"
                 THEN [status |-> 0, minPrice |-> Null, maxPrice |-> Null,
                       vibeTagsToAdd |-> <<>>]
                 ELSE ChatPost(OPENAI_API_KEY, outcome, rawPatch)} :
       /\ chatResponse' = [status |-> res.status,
                           llm |-> IF outcome # "unreachable" /\ ~OPENAI_API_KEY
                                   THEN "missing key" ELSE outcome]
       /\ IF res.status = 200
          THEN /\ pageCriteria' =
                    SwapPrices(
                      [vibeTags |-> MergeTags(optimisticCriteria.vibeTags, res.vibeTagsToAdd),
                       minPrice |-> IF res.minPrice # Null
                                    THEN res.minPrice ELSE optimisticCriteria.minPrice,
                       maxPrice |-> IF res.maxPrice # Null
                                    THEN res.maxPrice ELSE optimisticCriteria.maxPrice])
               /\ lastChatSource' = "llm"
          ELSE /\ pageCriteria' = SwapPrices(optimisticCriteria)
               /\ lastChatSource' = "fallback"
  /\ isSending' = FALSE
  /\ optimisticCriteria' = defaultCriteria
  /\ UNCHANGED <<cronVars, divVars, recVars>>

\* updateCriteria as the form calls it: one price bound, or the tags parsed
\* from the tags field.
UpdateCriteria ==
  /\ recPc = "idle"
  /\ \/ \E value \in FormPrices :
          \/ pageCriteria' = SwapPrices([pageCriteria EXCEPT !.minPrice = value])
          \/ pageCriteria' = SwapPrices([pageCriteria EXCEPT !.maxPrice = value])
     \/ \E value \in VibeInputs :
          pageCriteria' = SwapPrices([pageCriteria EXCEPT
                                    !.vibeTags = uniquePhrases(parseVibeInput(value))])
  /\ UNCHANGED <<lastChatSource, isSending, optimisticCriteria, chatResponse,
                 cronVars, divVars, recVars>>

\* runAction: the page posts its criteria to /api/plan/recommend, whose
\* handler starts by normalising them (POST, lines 907-922); the rest of
\* that handler is the subject of SpecRecommend, and the page is followed
\* up to its first request.
RunAction ==
  /\ recPc = "idle"
  /\ recPc' = "received"
  /\ \E mode \in Modes \ {"default"} :
     \E offset \in OffsetsFor(mode) :
       body' = [criteria |-> pageCriteria, mode |-> mode, offset |-> offset]
  /\ normalizedCriteria' = NormalizeCriteria(pageCriteria)
  /\ UNCHANGED <<recRestaurants, reads, silent, dbCandidates, filtered, constraintRelaxed,
                 relaxedCriteria, filterPasses, scored, workingCandidates, baseConfidence,
                 sourceMode, webAdded, webRan, rawPicks, rerank, fallbackRanking,
                 recommendations, response, chatVars, cronVars, divVars>>

NextChat == ChatSend \/ ChatReply \/ UpdateCriteria \/ RunAction

SpecChat == InitChat /\ [][NextChat]_vars

(***************************************************************************)
(* Claims about the weekly run.                                            *)
(***************************************************************************)
\* The rows of the run's extraction whose name passes the noise filter, and
\* those of them whose name occurs in the text of a claimed article.
PlausibleRows == {k \in DOMAIN extracted : ~looksLikeNoise(extracted[k].name)}
EvidencedRows ==
  {k \in PlausibleRows :
     \E j \in DOMAIN extracted[k].source_article_ids :
       LET a == extracted[k].source_article_ids[j]
       IN a \in DOMAIN articleTextById
          /\ includes(normalizeText(articleTextById[a]), normalizeText(extracted[k].name))}
GateMet ==
  /\ Cardinality(PlausibleRows) >= 5
  /\ 10 * Cardinality(EvidencedRows) >= 7 * Cardinality(PlausibleRows)
Persisting == pc \in {"clear_restaurants", "insert_restaurants", "seed"}
StoreTouched ==
  \/ buzz_restaurants # runStart.buzz_restaurants
  \/ restaurants # runStart.restaurants
  \/ trendingInserted > 0
Rejected ==
  /\ pc = "done"
  /\ trendingError \in {"quality_gate_failed: plausible rows below min",
                        "quality_gate_failed: evidence ratio below min"}

C1_Witness ==
  /\ pc = "done"
  /\ Cardinality(PlausibleRows) = 5
  /\ Cardinality(EvidencedRows) = 4
  /\ trendingInserted = 4
  /\ buzz_restaurants = StoredRows(acceptedRows)

\* The rows whose name occurs in the texts of their claimed articles joined
\* by a space, which is the text the gate searches.
EvidencedInJoinedText ==
  {k \in PlausibleRows :
     hasArticleEvidence(extracted[k].name, textFromLinkedIds(extracted[k], articleTextById))}
GateMetJoinedText ==
  /\ Cardinality(PlausibleRows) >= 5
  /\ 10 * Cardinality(EvidencedInJoinedText) >= 7 * Cardinality(PlausibleRows)

C2_RejectedRunKeepsStore ==
  /\ Rejected =>
       /\ buzz_restaurants = runStart.buzz_restaurants
       /\ restaurants = runStart.restaurants
       /\ trendingSeeded = 0
  /\ Cardinality(PlausibleRows) = 4 => Rejected

\* C2 witness: 4 plausible rows, all evidenced, rejected with earlier rows in store.
C2_Witness ==
  /\ Rejected
  /\ Cardinality(PlausibleRows) = 4
  /\ Cardinality(EvidencedRows) = 4
  /\ runStart.buzz_restaurants # {}
  /\ buzz_restaurants = runStart.buzz_restaurants

\* C3 (as claimed): whenever a run ends without having persisted new rows,
\* the table still holds the rows of before the run.
C3_FailedRunKeepsRows ==
  (pc = "done" /\ trendingInserted = 0) => buzz_restaurants = runStart.buzz_restaurants

\* C4 (as claimed): after every run the ranked articles hold the ranks
\* 1..k, each once; exactly 1..5 after a run that reports 5 curated.
RankedArticles == {i \in DOMAIN curated_rank : curated_rank[i] # 0}
C4_RanksContiguous ==
  pc = "done" =>
    /\ \A i, j \in RankedArticles : i # j => curated_rank[i] # curated_rank[j]
    /\ {curated_rank[i] : i \in RankedArticles} = 1..Cardinality(RankedArticles)
    /\ curated = 5 => Cardinality(RankedArticles) = 5

(***************************************************************************)
(* Claims about the recommend endpoint.                                    *)
(***************************************************************************)
\* The request got past the profile and restaurant fetches.
Served == recPc # "idle" /\ response.status \notin {404, 500}

\* The three conditions of the constraint filter, stated on a candidate's
\* searchable text.
PriceWithin(c, criteria) ==
  c.priceLevel = Null \/ (criteria.minPrice <= c.priceLevel /\ c.priceLevel <= criteria.maxPrice)
HoldsEveryDietaryTag(c, criteria) ==
  \A t \in Range(unique(criteria.vibeTags)) \cap HARD_DIETARY : includes(HayOf(c), t)
HoldsImpliedCuisine(c, criteria) ==
  LET implied == Range(cuisineIntentFromTags(criteria.vibeTags))
  IN implied = {} \/ \E cu \in implied : \E kw \in Range(KeywordsOf(cu)) : includes(HayOf(c), normalize(kw))

\* C5: a candidate is in the filtered pool only if its price level is unset
\* or within [minPrice, maxPrice], its text holds every dietary tag, and its
\* text holds a keyword of an implied cuisine when there is one; under
\* {minPrice 1, maxPrice 2, vegetarian} no price-level-3 candidate is kept.
C5_FilterOnlyIf ==
  Served =>
    /\ \A k \in DOMAIN filtered :
         /\ PriceWithin(filtered[k], normalizedCriteria)
         /\ HoldsEveryDietaryTag(filtered[k], normalizedCriteria)
         /\ HoldsImpliedCuisine(filtered[k], normalizedCriteria)
    /\ (/\ normalizedCriteria.minPrice = 1
        /\ normalizedCriteria.maxPrice = 2
        /\ normalizedCriteria.vibeTags = <<<<"v","e","g","e","t","a","r","i","a","n">>>>)
       => \A k \in DOMAIN filtered : filtered[k].priceLevel # 3

\* C5 witness: under {1, 2, vegetarian} the catalog holds a price-level-3
\* candidate tagged vegetarian, and the filter kept others but not that one.
C5_Witness ==
  /\ Served
  /\ body.criteria = [vibeTags |-> <<<<"V","e","g","e","t","a","r","i","a","n">>>>, minPrice |-> 1, maxPrice |-> 2]
  /\ \E k \in DOMAIN dbCandidates :
       /\ dbCandidates[k].priceLevel = 3
       /\ includes(dbCandidates[k].tagsText, <<"v","e","g","e","t","a","r","i","a","n">>)
       /\ \A j \in DOMAIN filtered : filtered[j].id # dbCandidates[k].id
  /\ Len(filtered) > 0

\* C6: the catalog is filtered a second time exactly when the strict pass
\* kept nothing and the criteria has tags; the second pass uses tags that
\* hold every dietary tag of the criteria and the same price bounds; the
\* pool is what that pass kept (empty if it kept nothing), and no catalog
\* entry outside the filtered pool reaches the working pool or the response.
C6_RelaxedRetry ==
  Served =>
    LET nc0 == NormalizeCriteria(body.criteria)
        strictEmpty == \A k \in DOMAIN dbCandidates :
                         ~(/\ PriceWithin(dbCandidates[k], nc0)
                           /\ HoldsEveryDietaryTag(dbCandidates[k], nc0)
                           /\ HoldsImpliedCuisine(dbCandidates[k], nc0))
    IN /\ filterPasses = IF strictEmpty /\ Len(nc0.vibeTags) > 0 THEN 2 ELSE 1
       /\ filterPasses = 2 =>
            /\ Range(nc0.vibeTags) \cap HARD_DIETARY \subseteq Range(relaxedCriteria.vibeTags)
            /\ Range(relaxedCriteria.vibeTags) \subseteq Range(nc0.vibeTags)
            /\ relaxedCriteria.minPrice = nc0.minPrice
            /\ relaxedCriteria.maxPrice = nc0.maxPrice
            /\ \A k \in DOMAIN dbCandidates :
                 (\E j \in DOMAIN filtered : filtered[j] = dbCandidates[k])
                 <=> (/\ PriceWithin(dbCandidates[k], relaxedCriteria)
                      /\ HoldsEveryDietaryTag(dbCandidates[k], relaxedCriteria)
                      /\ HoldsImpliedCuisine(dbCandidates[k], relaxedCriteria))
       /\ \A k \in DOMAIN workingCandidates :
            workingCandidates[k].source = "db" => workingCandidates[k] \in Range(filtered)
       /\ \A k \in DOMAIN recommendations :
            recommendations[k].source = "db"
            => \E j \in DOMAIN filtered : filtered[j].id = recommendations[k].id

\* C6 witness: a request with a dietary tag and two cuisines, a catalog that
\* holds rows, a second pass with fewer tags, and an empty pool at the end.
C6_Witness ==
  /\ recPc = "done"
  /\ response.status = 200
  /\ filterPasses = 2
  /\ Range(NormalizeCriteria(body.criteria).vibeTags) \cap HARD_DIETARY # {}
  /\ Len(relaxedCriteria.vibeTags) < Len(NormalizeCriteria(body.criteria).vibeTags)
  /\ Len(dbCandidates) > 0
  /\ filtered = <<>>

\* C7: every pick taken from the reranker carries the id of a candidate of
\* the pool handed to it whose text satisfies the cuisine intent and every
\* dietary tag of the criteria; at most 3 picks are taken, and they are the
\* recommendations.
C7_RerankPicksRevalidated ==
  /\ Len(rerank.picks) <= 3
  /\ \A k \in DOMAIN rerank.picks :
       \E j \in DOMAIN workingCandidates :
         /\ workingCandidates[j].id = rerank.picks[k].id
         /\ workingCandidates[j].name = rerank.picks[k].name
         /\ HoldsEveryDietaryTag(workingCandidates[j], normalizedCriteria)
         /\ HoldsImpliedCuisine(workingCandidates[j], normalizedCriteria)
  /\ rerank.llmUsed => recommendations = rerank.picks
  /\ rerank.llmUsed <=> Len(rerank.picks) > 0

\* C7 witness: the model returned four picks, three of them candidates
\* without the dietary tag, and only the valid one was taken.
C7_Witness ==
  /\ recPc = "done"
  /\ rerank.llmUsed
  /\ Len(rawPicks) = 4
  /\ Len(rerank.picks) = 1
  /\ \E k \in DOMAIN rawPicks : \E j \in DOMAIN workingCandidates :
       /\ workingCandidates[j].id = rawPicks[k].id
       /\ ~HoldsEveryDietaryTag(workingCandidates[j], normalizedCriteria)

\* The pool in score order, rotated left by offset modulo its size.
RotatedRanking ==
  LET start == IF Len(fallbackRanking) = 0 THEN 0 ELSE body.offset % Len(fallbackRanking)
  IN SubSeq(fallbackRanking, start + 1, Len(fallbackRanking)) \o SubSeq(fallbackRanking, 1, start)

\* C8 (as claimed): when the reranker is not used, the recommendations are
\* the first 3 entries, the first 2 for a tighten request, of the
\* score-ordered pool rotated left by offset modulo the pool size.
C8_FallbackTopN ==
  (recPc = "done" /\ response.status = 200 /\ ~rerank.llmUsed) =>
    LET n == Min(IF body.mode = "tighten" THEN 2 ELSE 3, Len(RotatedRanking))
    IN [k \in DOMAIN recommendations |-> recommendations[k].id]
       = [k \in 1..n |-> RotatedRanking[k].id]

\* Entries of equal score stand in case-insensitive lexicographic name order.
TiesByName(order) ==
  \A i, j \in DOMAIN order :
    (i < j /\ order[i].score = order[j].score)
    => LexLessEq(LowerCased(order[i].name), LowerCased(order[j].name))

\* C9 (as claimed): in the triage order and in the fallback ranking,
\* candidates of equal score stand in case-insensitive name order.
C9_TieBreakByName == TiesByName(scored) /\ TiesByName(fallbackRanking)

(***************************************************************************)
(* Claims about the diversity pass.                                        *)
(***************************************************************************)
\* The valid ids handed to a diversify call.
DivValidIds ==
  {id \in Range(divArgs.preferredIds) \cup Range(divArgs.candidateIds) :
     \E k \in DOMAIN divArgs.articles : divArgs.articles[k].id = id}

\* C10: the diversity pass returns exactly min(target, number of distinct valid
\* ids among the preferred and candidate ids) ids, each a valid article id,
\* none repeated.
C10_DiversifyCount ==
  divResult.done =>
    /\ Len(divResult.ids) = Min(divArgs.target, Cardinality(DivValidIds))
    /\ Range(divResult.ids) \subseteq DivValidIds
    /\ \A i, j \in DOMAIN divResult.ids : i # j => divResult.ids[i] # divResult.ids[j]

\* C10 witness: three articles of one source, minSources 4, and all three returned.
C10_Witness ==
  /\ divResult.done
  /\ Len(divArgs.articles) = 3
  /\ Cardinality({divArgs.articles[k].source_id : k \in DOMAIN divArgs.articles}) = 1
  /\ divArgs.minSources = 4
  /\ Len(divResult.ids) = 3

\* The sources of a set of ids of a diversify call.
DivSourcesOf(idSet) == {SourceOfId(divArgs.articles, id) : id \in idSet}

\* C11 (as claimed): the ids returned come from at least minSources distinct
\* sources whenever the valid preferred and candidate ids span at least
\* minSources distinct sources.
C11_MinSourcesAsClaimed ==
  (divResult.done /\ Cardinality(DivSourcesOf(DivValidIds)) >= divArgs.minSources)
    => Cardinality(DivSourcesOf(Range(divResult.ids))) >= divArgs.minSources

\* C11 (amended): with target >= minSources and a per-source cap of at least
\* 1, the ids returned come from at least minSources distinct sources whenever
\* the valid preferred and candidate ids span at least minSources distinct
\* sources.
C11_MinSources ==
  (/\ divResult.done
   /\ divArgs.target >= divArgs.minSources
   /\ divArgs.maxPerSource >= 1
   /\ Cardinality(DivSourcesOf(DivValidIds)) >= divArgs.minSources)
    => Cardinality(DivSourcesOf(Range(divResult.ids))) >= divArgs.minSources

\* C11 witness: both preferred ids are of one source, a candidate id is of
\* another, and with target 2 and minSources 2 the candidate displaces the
\* second preferred id.
C11_Witness ==
  /\ divResult.done
  /\ divArgs.target = 2 /\ divArgs.minSources = 2 /\ divArgs.maxPerSource = 2
  /\ Len(divArgs.preferredIds) = 2
  /\ Range(divArgs.preferredIds) \subseteq DivValidIds
  /\ Cardinality(Range(divArgs.preferredIds)) = 2
  /\ Cardinality(DivSourcesOf(Range(divArgs.preferredIds))) = 1
  /\ Cardinality(DivSourcesOf(Range(divResult.ids))) = 2

(***************************************************************************)
(* Claims about the curation step of the weekly run.                       *)
(***************************************************************************)
\* The sources of the recent articles and of the ids the run picked.
RecentSources == {RecentArticles[k].source_id : k \in DOMAIN RecentArticles}
CuratedSources == {SourceOfId(RecentArticles, ids[k]) : k \in DOMAIN ids}

\* C12 (as claimed): the 5 articles a curation run picks for ranking come from
\* at least 4 distinct sources whenever the recent articles come from at
\* least 4 distinct sources.
C12_CuratedSpansFourSources ==
  (Len(ids) >= 5 /\ Cardinality(RecentSources) >= 4) => Cardinality(CuratedSources) >= 4

\* The curation step of a run whose store holds at least 5 recent articles
\* and whose read of them did not fail, ending without 5 valid ids of the
\* model.
LlmPassShort ==
  /\ pc = "curate" /\ pc' # "curate"
  /\ Len(RecentArticles) >= 5
  /\ curationError' \notin {"fetch failed", "Need at least 5 recent articles before curation"}
  /\ curationMethod' # "llm"

\* C16 (as claimed): in a curation run with at least 5 recent articles,
\* whenever the LLM pass yields fewer than 5 valid ids, the model being
\* unavailable or its call failing included, the picks are ids of the
\* deterministic fallback ranking and the method is reported as fallback.
C16_FallbackWhenLlmShort ==
  [][LlmPassShort =>
       /\ curationMethod' = "fallback"
       /\ Len(ids') = 5
       /\ \E names \in {SourceNames, <<>>} :
            Range(ids') = Range(fallbackCuratedArticleIds(RecentArticles, names))]_vars

(***************************************************************************)
(* Claims about the web augmentation of a recommend request.               *)
(***************************************************************************)
\* The request has passed the decision to augment and, where it augments,
\* the augmentor has returned.
PastAugmentation == Served /\ recPc \in {"rerank", "done"}

C18_HybridIffWebMerged ==
  PastAugmentation =>
    (sourceMode = "hybrid" <=>
       \E k \in DOMAIN workingCandidates : workingCandidates[k].source = "web")

\* C19 (as claimed): when the persistence layer cannot be read (unreachable,
\* or answering non-2xx for the profile or for the restaurant catalog), the
\* recommend operation returns an explicit error and never a success
\* payload.
C19_UnreadableStoreIsError ==
  (recPc = "done" /\ (reads.profile \in {"throw", "error"}
                      \/ reads.restaurants \in {"throw", "error"}))
    => response.status \in {404, 500}

\* The upstream whose answer the handler is waiting for at its position:
\* the reads before the filter, the search page, the completion (requested
\* only with a key and a non-empty pool).
Awaited ==
  CASE recPc = "idle" -> {"persistence"}
    [] recPc = "web" -> {"web"}
    [] recPc = "rerank" /\ OPENAI_API_KEY /\ Len(workingCandidates) > 0 -> {"llm"}
    [] OTHER -> {}

\* C20 (as claimed): every outbound network call made while serving a
\* request is bounded by an explicit timeout, so the handler is never left
\* waiting for an upstream that never answers: it has returned, or the call
\* it awaits settles.
C20_EveryCallSettles == recPc = "done" \/ \A upstream \in Awaited : Settles(upstream)

(***************************************************************************)
(* Claims about the planning page and the chat endpoint.                   *)
(***************************************************************************)
\* Both bounds set implies minPrice <= maxPrice.
PricesOrdered(c) == c.minPrice = Null \/ c.maxPrice = Null \/ c.minPrice <= c.maxPrice

\* C13: after any sequence of chat messages and form edits, and after the
\* recommend endpoint has normalised the criteria it received, the criteria
\* never have both price bounds set with minPrice greater than maxPrice.
C13_PriceBoundsOrdered ==
  /\ PricesOrdered(pageCriteria)
  /\ PricesOrdered(optimisticCriteria)
  /\ PricesOrdered(normalizedCriteria)

\* C13 witness: the model answered minPrice 4 and maxPrice 2, the page holds
\* 2 and 4, and the recommend endpoint has normalised the criteria posted.
C13_Witness ==
  /\ lastChatSource = "llm"
  /\ pageCriteria.minPrice = 2 /\ pageCriteria.maxPrice = 4
  /\ recPc = "received"
  /\ normalizedCriteria.minPrice = 2 /\ normalizedCriteria.maxPrice = 4

\* C14: processing a chat message never removes a tag: the step that sends
\* the message keeps every tag the criteria hold, and the step that applies
\* the answer, on the llm path or on the fallback path, keeps every tag of
\* the criteria the message was sent with.
C14_ChatKeepsTags ==
  [][(isSending # isSending') =>
       \A t \in Range(IF isSending THEN optimisticCriteria.vibeTags
                      ELSE pageCriteria.vibeTags) :
         normalize(t) \in Range(pageCriteria'.vibeTags)]_vars

\* C14 witness: an answer of the model was merged and the criteria hold the
\* tag held before it and the tag it added.
C14_Witness ==
  /\ lastChatSource = "llm"
  /\ ~isSending
  /\ pageCriteria.vibeTags = <<<<"g","l","u","t","e","n"," ","f","r","e","e">>, <<"s","u","s","h","i">>>>

\* C15: whenever the LLM parse of a chat message fails (missing key, rejected
\* fetch, non-2xx reply, no content, malformed JSON), the criteria are those
\* the heuristic parser's patch gave and the source flag is fallback; the
\* flag is llm only when the LLM parse succeeded.
C15_FallbackOnLlmFailure ==
  [][(isSending /\ ~isSending') =>
       /\ chatResponse'.llm # "ok" =>
            (lastChatSource' = "fallback" /\ pageCriteria' = optimisticCriteria)
       /\ lastChatSource' = "llm" => chatResponse'.llm = "ok"]_vars

\* C15 witness: the model's content was malformed, the flag is fallback and
\* the criteria carry what the heuristic parser read from the message.
C15_Witness ==
  /\ chatResponse.llm = "malformed"
  /\ lastChatSource = "fallback"
  /\ ~isSending
  /\ pageCriteria.maxPrice = 2
  /\ pageCriteria.vibeTags = <<<<"s","u","s","h","i">>, <<"g","l","u","t","e","n"," ","f","r","e","e">>>>

(***************************************************************************)
(* Claims about the writes of the weekly run.                              *)
(***************************************************************************)
\* A PATCH of setBuzzCuratedRanksById fails: the run leaves the assignment
\* with ranks still to set.
AssignFails ==
  pc = "set_ranks" /\ pc' = "trending" /\ rankIdx' < Min(5, Len(ids))

\* The ranks of the previous run are gone: only ids of this run hold one.
PreviousRanksCleared ==
  \A i \in DOMAIN curated_rank :
    curated_rank[i] # 0 => \E k \in 1..rankIdx : ids[k] = i

\* C21 (as claimed): if assigning curated ranks fails after the previous
\* ranks were cleared, the run's result reports that assignment failure as
\* its curation error with a curated count of 0, and the run makes no second
\* attempt to assign ranks.
C21_RankFailureReported ==
  [][/\ (AssignFails /\ PreviousRanksCleared) =>
          (curationError' \in {"Supabase error", "fetch failed"} /\ curated' = 0)
     /\ pc \in {"trending", "done"} => pc' \notin {"clear_ranks", "set_ranks"}]_vars

\* The insert of the accepted rows fails: the run leaves the insert step
\* with the table as the clear step left it, empty.
InsertFails ==
  pc = "insert_restaurants" /\ pc' # pc /\ buzz_restaurants' = {}

\* C22: if inserting the accepted trending rows fails after the clear step
\* succeeded, the run's result carries that insert error in its trending
\* error field, reports 0 inserted rows, and no catalog seeding is attempted.
C22_InsertFailureReported ==
  [][InsertFails =>
       /\ pc' = "done"
       /\ trendingError' \in {"Supabase error: insert", "fetch failed"}
       /\ trendingInserted' = 0
       /\ trendingSeeded' = 0
       /\ restaurants' = restaurants]_vars

\* A run that ended on a failed insert after its clear emptied a table that
\* held rows.
C22_Witness ==
  /\ pc = "done"
  /\ trendingError = "Supabase error: insert"
  /\ runStart.buzz_restaurants # {}
  /\ buzz_restaurants = {}
  /\ trendingInserted = 0
  /\ trendingSeeded = 0

(***************************************************************************)
(* Claims about the quality gate.                                          *)
(***************************************************************************)
\* The gate has just accepted the run's extracted rows.
Gated == pc = "clear_restaurants"

\* The row lists the extraction could have returned for the run's curated
\* articles, each put through the gate with the run's article texts.
OtherGateResults ==
  {evaluateTrendingQuality(ExtractedRows(CuratedArticleIds, nNamed, nHallucinated, nNoise, 0),
                           articleTextById) :
     nNamed \in 0..Len(CuratedArticleIds),
     nHallucinated \in 0..MaxHallucinated,
     nNoise \in 0..MaxNoise}

\* b has at least a's plausible-row count and at least a's evidence ratio.
NotBelow(a, b) ==
  /\ b.validCount >= a.validCount
  /\ b.evidenceCount * a.validCount >= a.evidenceCount * b.validCount

\* C23: for the quality gate, raising the evidence ratio or raising the
\* plausible-row count while everything else stays unchanged never turns an
\* accepted run into a rejected one.
C23_GateMonotonic ==
  Gated =>
    LET a == evaluateTrendingQuality(extracted, articleTextById)
    IN a.passed /\ \A b \in OtherGateResults : NotBelow(a, b) => b.passed

\* A run accepted with 5 plausible rows, 4 of them evidenced, while 6
\* plausible rows with 5 evidenced were possible.
C23_Witness ==
  /\ Gated
  /\ Len(acceptedRows) = 4
  /\ evaluateTrendingQuality(extracted, articleTextById).validCount = 5
  /\ \E b \in OtherGateResults : b.validCount = 6 /\ b.evidenceCount = 5 /\ b.passed

(* Claims about the rows the run stores. *)
WrittenRows == IF pc \in {"seed", "done"} /\ trendingInserted > 0 THEN buzz_restaurants ELSE {}
InOneArticle(r) ==
  \E k \in DOMAIN r.source_article_ids :
     /\ r.source_article_ids[k] \in DOMAIN articleTextById
     /\ hasArticleEvidence(r.name, articleTextById[r.source_article_ids[k]])

\* C24: every row the run writes to the trending table has a name that
\* passes the noise blocklist and occurs, normalised, in the text of at
\* least one of the articles it claims.
C24_WrittenRowsEvidenced ==
  \A r \in WrittenRows : ~looksLikeNoise(r.name) /\ InOneArticle(r)

\* The same for the rows that claim a single article.
C24_SingleArticleRowsEvidenced ==
  \A r \in WrittenRows :
     Len(r.source_article_ids) = 1 => ~looksLikeNoise(r.name) /\ InOneArticle(r)

(* Claims about the recommendations returned. *)
Answered == recPc = "done" /\ response.status = 200

\* C25: every recommendation returned, from the reranker or from the scorer
\* fallback, from the catalog or from the web, meets the hard constraints in
\* force for the request: the budget when its price is known, every dietary
\* tag and the cuisine intent.
C25_ReturnedMeetHardConstraints ==
  Answered =>
    \A k \in DOMAIN recommendations :
       \E c \in {ById(workingCandidates, recommendations[k].id)} :
          /\ PriceWithin(c, normalizedCriteria)
          /\ HoldsEveryDietaryTag(c, normalizedCriteria)
          /\ HoldsImpliedCuisine(c, normalizedCriteria)

\* The same for the recommendations that come from the catalog.
C25_CatalogPicksMeetHardConstraints ==
  Answered =>
    \A k \in DOMAIN recommendations :
       recommendations[k].source = "db" =>
         \E c \in {ById(workingCandidates, recommendations[k].id)} :
            /\ PriceWithin(c, normalizedCriteria)
            /\ HoldsEveryDietaryTag(c, normalizedCriteria)
            /\ HoldsImpliedCuisine(c, normalizedCriteria)

(* Claims about seeding the catalog. *)
Seeds == restaurants' # restaurants
SeedFails == pc = "seed" /\ pc' = "done" /\ trendingSeeded' = 0
Carries(row) ==
  \/ row.neighborhood # <<>>
  \/ row.price_level # Null
  \/ Len(row.cuisine_vibes) > 0
  \/ row.google_rating # Null

\* C26: rows are seeded into the catalog only after the accepted rows were
\* inserted, only rows that carry a neighborhood, a price, a tag or a rating
\* are seeded, and a failed seeding is reported and leaves the inserted rows
\* and their count as they were.
C26_SeedAfterInsert ==
  [][/\ Seeds => /\ pc = "seed"
                 /\ buzz_restaurants = StoredRows(acceptedRows)
                 /\ trendingInserted = Len(acceptedRows)
                 /\ restaurants' \ restaurants \subseteq
                      {trim(acceptedRows[k].name) : k \in {j \in DOMAIN acceptedRows : Carries(acceptedRows[j])}}
     /\ SeedFails => /\ trendingError' \in {"Supabase error: seed", "fetch failed"}
                     /\ buzz_restaurants' = buzz_restaurants
                     /\ trendingInserted' = trendingInserted
                     /\ restaurants' = restaurants]_vars

\* C26 witness: five rows were inserted, the one of them that came back
\* enriched was seeded.
C26_Witness ==
  /\ pc = "done"
  /\ trendingInserted = 5
  /\ trendingSeeded = 1
  /\ Cardinality(restaurants) = 1
  /\ buzz_restaurants = StoredRows(acceptedRows)

\* A failed seeding after five inserted rows.
C26_WitnessSeedFails ==
  /\ pc = "done"
  /\ trendingError = "Supabase error: seed"
  /\ trendingInserted = 5
  /\ trendingSeeded = 0
  /\ restaurants = {}

(* Claims about the web augmentor. *)
SeededCuisineImplied ==
  \E cuisine \in Range(cuisineIntentFromTags(normalizedCriteria.vibeTags)) :
     cuisine \in {<<"s","u","s","h","i">>, <<"j","a","p","a","n","e","s","e">>, <<"o","m","a","k","a","s","e">>}
NothingUsable(answer) ==
  answer.outcome = "ok"
  /\ ParsedResults(answer.matches, QueryCore(unique(normalizedCriteria.vibeTags))) = <<>>

\* C27: when the criteria imply a seeded cuisine and the web search throws,
\* answers non-2xx or yields nothing usable, webAugment returns the seed
\* candidates of that cuisine.
C27_SeedsWhenSearchFails ==
  (recPc = "web" /\ SeededCuisineImplied) =>
    \A answer \in WebAnswers :
       (answer.outcome \in {"throw", "error"} \/ NothingUsable(answer)) =>
         /\ seededWebCuisineCandidates(normalizedCriteria) # <<>>
         /\ webAugment(normalizedCriteria, answer.outcome, answer.matches)
              = seededWebCuisineCandidates(normalizedCriteria)

\* The same without the non-2xx reply.
C27_SeedsWhenSearchThrowsOrIsEmpty ==
  (recPc = "web" /\ SeededCuisineImplied) =>
    \A answer \in WebAnswers :
       (answer.outcome = "throw" \/ NothingUsable(answer)) =>
         /\ seededWebCuisineCandidates(normalizedCriteria) # <<>>
         /\ webAugment(normalizedCriteria, answer.outcome, answer.matches)
              = seededWebCuisineCandidates(normalizedCriteria)

(* Claims about the confidence reported. *)
\* The candidates behind the recommendations, with their notes and tags.
RecommendedCandidates ==
  [k \in DOMAIN recommendations |-> ById(workingCandidates, recommendations[k].id)]

\* C28: the confidence reported with the recommendations is 0.75 for at
\* least 3 of them and 0.45 otherwise when the tags hold no cuisine or
\* dietary intent, and otherwise 0.65 x coverage + 0.35 x min(1, depth/8) in
\* hundredths, coverage counting the recommended candidates whose name,
\* neighborhood, notes and tags satisfy the intent; it lies in [0, 1].
C28_ReportedConfidence ==
  Answered =>
    /\ response.confidence
         = ConfidenceFor(RecommendedCandidates, unique(normalizedCriteria.vibeTags),
                         cuisineIntentFromTags(unique(normalizedCriteria.vibeTags)))
    /\ response.confidence \in 0..100

\* The same for the answers that hold a recommendation.
C28_ReportedConfidenceOfNonEmpty ==
  (Answered /\ Len(recommendations) > 0) =>
    response.confidence
      = ConfidenceFor(RecommendedCandidates, unique(normalizedCriteria.vibeTags),
                      cuisineIntentFromTags(unique(normalizedCriteria.vibeTags)))

\* The confidence of the pool before augmentation follows the formula, and
\* every confidence lies in [0, 1].
C28_PoolConfidence ==
  Served =>
    /\ response.confidence \in 0..100
    /\ baseConfidence \in 0..100
    /\ Len(filtered) > 0 =>
         baseConfidence
           = ConfidenceFor(filtered, unique(normalizedCriteria.vibeTags),
                           cuisineIntentFromTags(unique(normalizedCriteria.vibeTags)))

(* Claims about form edits made during a chat request. *)
ReplyApplied == isSending /\ ~isSending'
EditedInFlight == isSending /\ pageCriteria # optimisticCriteria

\* C29: a form edit made while a chat request is in flight is still in the
\* criteria after the answer, or its fallback, has been applied: the tags
\* the form holds are kept, and a fallback, which carries no patch, leaves
\* the criteria as the form left them.
C29_FormEditSurvivesReply ==
  [][ReplyApplied =>
       /\ Range(pageCriteria.vibeTags) \subseteq Range(pageCriteria'.vibeTags)
       /\ lastChatSource' = "fallback" => pageCriteria' = pageCriteria]_vars

\* The same for the answers that arrive with no form edit made in flight.
C29_ReplyWithoutEdit ==
  [][(ReplyApplied /\ ~EditedInFlight) =>
       /\ Range(pageCriteria.vibeTags) \subseteq Range(pageCriteria'.vibeTags)
       /\ lastChatSource' = "fallback" => pageCriteria' = pageCriteria]_vars

(* Claims about the size of the answer. *)
DistinctIds(recs) ==
  \A i \in DOMAIN recs : \A j \in DOMAIN recs : i # j => recs[i].id # recs[j].id

\* C30: a response holds at most 3 recommendations and no candidate id
\* twice, whether the reranker or the scorer fallback chose them.
C30_AtMostThreeDistinct ==
  Answered => (Len(recommendations) <= 3 /\ DistinctIds(recommendations))

\* The same for the count alone, and for the ids on the fallback path.
C30_AtMostThree ==
  Answered => Len(recommendations) <= 3
C30_FallbackDistinct ==
  (Answered /\ Len(rerank.picks) = 0) => DistinctIds(recommendations)
====
